---- MODULE Spec2Model ----
(***************************************************************************)
(* terraform-provider-slicer: the exec resource (streamed remote command)  *)
(* and the file resource (payload transfer with a content digest).         *)
(*                                                                         *)
(* Strings are sequences of one-character strings; an error message is a   *)
(* sequence of message pieces (a fixed prefix is one piece).               *)
(* The slicer client (internal/slicer) is the producer side of the exec    *)
(* channel; the provider's handlers are the consumer side.                 *)
(***************************************************************************)
EXTENDS Integers, Sequences, FiniteSets, TLC

\* ------------------------------------------------------------------ bounds
MaxChunks == 2      \* remote frames over the whole run
TickSeconds == 20   \* granularity of the clock while a stream is open
MaxBytes == 2       \* longest source file
MaxFsWrites == 1    \* rewrites of the source file over the whole run
MaxFileOps == 2     \* file handlers over the whole run
MaxVMs == 2         \* VMs in a remote listing
MaxFilters == 2     \* filter blocks of the vms data source
MaxTags == 2        \* entries of a tags map

\* -------------------------------------------------------- program constants
DefaultTimeout == 30

\* a types.String attribute: null, or a value
NullAttr == [null |-> TRUE]
StringValue(v) == [null |-> FALSE, value |-> v]
ValueString(a) == IF a.null THEN <<>> ELSE a.value
\* types.Bool and types.Int64, and their ValueBool() / ValueInt64()
BoolValue(b) == [null |-> FALSE, value |-> b]
ValueBool(a) == IF a.null THEN FALSE ELSE a.value
Int64Value(n) == [null |-> FALSE, value |-> n]
ValueInt64(a) == IF a.null THEN 0 ELSE a.value

\* an optional value: <<>> when absent, <<v>> when present
None == <<>>
Some(v) == <<v>>
NoErr == <<>>
NoState == [absent |-> TRUE]
NoRet == [absent |-> TRUE]
NoChunk == [absent |-> TRUE]

\* ------------------------------------------------------------ input domains
StdoutFragments == {<<>>, <<"a">>, <<"b">>}
StderrFragments == {<<>>, <<"x">>}
ExitCodes == {0, 2}
Chars == {"a", "e-acute"}
ContentStrings == {<<>>, <<"a">>, <<"e-acute">>, <<"e-acute", "a">>}
FileBytes == {0, 97}
ErrorStrings == {<<>>, <<"e">>}
TimeoutAttrs ==
  {NullAttr, StringValue(<<"2", "5", "s">>), StringValue(<<"1", "m">>),
   StringValue(<<"s">>)}

\* A frame as the remote sent it; hasExit tells whether the frame set an
\* exit code at all.
Frames ==
  [stdout : StdoutFragments, stderr : StderrFragments,
   hasExit : BOOLEAN, exit : ExitCodes, error : ErrorStrings]

RemoteFrames == {f \in Frames : f.hasExit \/ f.exit = 0}

VARIABLES
  configured,     \* provider Configure handed a client to the resources
  httpTimeout,    \* http.Client.Timeout of the shared client, in seconds
  execOp,         \* exec handler in flight: "none", "create", "update"
  prodPc,         \* slicer client Exec: "idle", "recv", "send", "closing", "closed"
  outChunk,       \* the chunk the producer is sending on the channel
  seen,           \* what the chunks the consumer received carried, in
                  \* arrival order
  execPc,         \* executeCommand: "idle", "reading", "returned"
  stdoutBuilder,
  stderrBuilder,
  exitCode,
  ret,            \* what executeCommand returned
  ctxCancelled,   \* the caller's context is cancelled
  cancelMark,     \* output consumed when the context was cancelled
  age,            \* seconds since the stream was opened
  framesLeft,     \* frames the remote may still send in this run
  execState,      \* recorded state of the exec resource
  execDiags,      \* error diagnostics of the last exec handler
  fileOp,         \* file handler in flight: "none", "create", "update"
  filePc,         \* copyFile: "idle", "read", "hash", "stage", "send", "done"
  plan,           \* the planned content and source attributes
  fs,             \* the local source file: its bytes, None when missing
  content,        \* copyFile's content
  contentHash,    \* copyFile's contentHash
  tmpFile,        \* bytes of the temp file, None when there is none
  staged,         \* how staging the temp file went: "none", "ok", "failed"
  sent,           \* bytes the remote received in this transfer
  remoteCalls,    \* requests issued to the remote in this transfer
  cpResult,       \* how the remote answered CpToVM: "none" before it did,
                  \* "ok", "upload failed", "permissions failed"
  fileErr,        \* the error copyFile returned, NoErr when none
  fileState,      \* recorded state of the file resource
  fileDiags,      \* error diagnostics of the last file handler
  fsWrites,       \* times the source file was rewritten
  fileOps,        \* file handlers run so far
  environ,        \* the process environment: SLICER_ENDPOINT, SLICER_TOKEN
  providerReq,    \* the configuration provider Configure was called with
  providerDiags,  \* error diagnostics of provider Configure
  client,         \* the slicer client provider Configure built, None if none
  resourceClient, \* the client a resource or data source holds
  execPlan,       \* the planned command and triggers of the exec resource
  vmOp,           \* the last vm handler: "none", "create", "read", ...
  vmState,        \* recorded state of the vm resource
  vmDiags,        \* error diagnostics of the last vm handler
  remoteVM,       \* the VM as the remote holds it, None when absent
  vmReq,          \* the create request the last handler sent, None if none
  vmRequests,     \* the client calls the last vm handler made
  vmExposed,      \* the ip a handler exposed last, and the remote's ip
  vmData,         \* what the last data source read returned
  secretOp,       \* the last secret handler
  secretState,    \* recorded state of the secret resource
  secretDiags,    \* error diagnostics of the last secret handler
  remoteSecret,   \* the secret as the remote holds it, None when absent
  secretPlanned,  \* value of the last plan Create or Update applied
  secretData      \* what the secret data source returned last

execVars == <<configured, httpTimeout, execOp, prodPc, outChunk, seen, execPc,
              stdoutBuilder, stderrBuilder, exitCode, ret, ctxCancelled,
              cancelMark, age, framesLeft, execState, execDiags>>

fileVars == <<fileOp, filePc, plan, fs, content, contentHash, tmpFile, staged,
              sent, remoteCalls, cpResult, fileErr, fileState, fileDiags,
              fsWrites, fileOps>>

providerVars == <<environ, providerReq, providerDiags, client, resourceClient>>

vmVars == <<vmOp, vmState, vmDiags, remoteVM, vmReq, vmRequests, vmExposed,
            vmData>>

secretVars == <<secretOp, secretState, secretDiags, remoteSecret,
                secretPlanned, secretData>>

\* what the exec handlers, and what the file handlers, leave alone
outsideExec == <<execPlan, fileVars, providerVars, vmVars, secretVars>>
outsideFile == <<execVars, execPlan, providerVars, vmVars, secretVars>>

vars == <<execVars, execPlan, fileVars, providerVars, vmVars, secretVars>>

\* ---------------------------------------------------------------- helpers
\* strings.Contains on sequences
Contains(s, sub) ==
  \E i \in 0..(Len(s) - Len(sub)) :
    \A j \in 1..Len(sub) : s[i + j] = sub[j]

IsPrefix(p, s) == Len(p) <= Len(s) /\ SubSeq(s, 1, Len(p)) = p

Digit(c) ==
  CASE c = "0" -> 0 [] c = "1" -> 1 [] c = "2" -> 2 [] c = "3" -> 3
    [] c = "4" -> 4 [] c = "5" -> 5 [] c = "6" -> 6 [] c = "7" -> 7
    [] c = "8" -> 8 [] c = "9" -> 9 [] OTHER -> -1

RECURSIVE DigitsValue(_, _)
DigitsValue(s, acc) ==
  IF s = <<>> THEN acc ELSE DigitsValue(Tail(s), acc * 10 + Digit(s[1]))

\* time.ParseDuration restricted to "<digits>s" and "<digits>m"; -1 is the
\* parse error
ParseDuration(s) ==
  IF Len(s) < 2 THEN -1
  ELSE LET num == SubSeq(s, 1, Len(s) - 1)
           unit == s[Len(s)]
       IN IF \E i \in 1..Len(num) : Digit(num[i]) < 0 THEN -1
          ELSE IF unit = "s" THEN DigitsValue(num, 0)
          ELSE IF unit = "m" THEN 60 * DigitsValue(num, 0)
          ELSE -1

\* ------------------------------------------------------- provider Configure
\* os.Getenv
Getenv(name) == environ[name]

\* endpoint and token: the environment variable, overridden by a non-null
\* attribute
ResolveAttrEnvFirst(attr, name) ==
  IF Getenv(name) # <<>> THEN Getenv(name) ELSE ValueString(attr)
ResolveAttr(attr, name) ==
  IF ~attr.null THEN ValueString(attr) ELSE Getenv(name)

\* transport.TLSClientConfig = &tls.Config{InsecureSkipVerify: true} or the
\* zero http.Transport, which verifies certificates
InsecureSkipVerifyUnlessFalse(insecure) == insecure.null \/ ValueBool(insecure)
InsecureSkipVerify(insecure) == ~insecure.null /\ ValueBool(insecure)

MissingDiags(endpoint, token) ==
  (IF endpoint = <<>>
   THEN <<[attribute |-> "endpoint", summary |-> "Missing Slicer API Endpoint"]>>
   ELSE <<>>)
  \o (IF token = <<>>
      THEN <<[attribute |-> "token", summary |-> "Missing Slicer API Token"]>>
      ELSE <<>>)

\* SlicerProvider.Configure
Configure(data) ==
  /\ providerReq = None
  /\ providerReq' = Some(data)
  /\ LET endpoint == ResolveAttr(data.endpoint, "SLICER_ENDPOINT")
         token == ResolveAttr(data.token, "SLICER_TOKEN")
         missing == MissingDiags(endpoint, token)
         parsed == IF data.timeout.null THEN DefaultTimeout
                   ELSE ParseDuration(ValueString(data.timeout))
     IN IF missing # <<>>
        THEN /\ providerDiags' = missing
             /\ UNCHANGED <<client, configured, httpTimeout>>
        ELSE IF parsed < 0
        THEN /\ providerDiags' =
                  <<[attribute |-> "timeout", summary |-> "Invalid Timeout Value"]>>
             /\ UNCHANGED <<client, configured, httpTimeout>>
        ELSE /\ providerDiags' = <<>>
             /\ client' = Some([endpoint |-> endpoint, token |-> token,
                                timeout |-> parsed,
                                insecureSkipVerify |->
                                  InsecureSkipVerify(data.insecure)])
             /\ httpTimeout' = parsed
             /\ configured' = TRUE
  /\ UNCHANGED <<environ, resourceClient, execPlan, fileVars, vmVars,
                 secretVars>>
  /\ UNCHANGED <<execOp, prodPc, outChunk, seen, execPc, stdoutBuilder,
                 stderrBuilder, exitCode, ret, ctxCancelled, cancelMark, age,
                 framesLeft, execState, execDiags>>

\* Configure of a resource or data source: it takes the client out of the
\* provider data, and returns at once when there is none
ResourceConfigure ==
  /\ providerReq # None
  /\ resourceClient' = client
  /\ UNCHANGED <<execVars, execPlan, fileVars, vmVars, secretVars, environ,
                 providerReq, providerDiags, client>>

\* a provider block that names the endpoint and the token
ProviderConfig(timeoutAttr) ==
  [endpoint |-> StringValue(<<"https://slicer">>),
   token |-> StringValue(<<"token">>),
   timeout |-> timeoutAttr,
   insecure |-> NullAttr]

\* the provider block with no timeout set
DefaultProviderConfig == ProviderConfig(NullAttr)

\* ------------------------------------------------ the consumer's operators
\* strings.Builder.WriteString
WriteStringOverwrite(builder, s) == s
WriteString(builder, s) == builder \o s

\* the loop's test of a chunk for a carried error
ChunkFailedNever(c) == FALSE
ChunkFailedOrExitedNonZero(c) == c.Error # <<>> \/ c.ExitCode # 0
ChunkFailed(c) == c.Error # <<>>

\* fmt.Errorf("exec error: %s", result.Error)
ExecErrorfBare(e) == <<"exec error">>
ExecErrorf(e) == <<"exec error: ">> \o e

\* fmt.Sprintf("Unable to execute command: %s", err)
ExecDiag(err) ==
  [summary |-> "Execution Error",
   detail |-> <<"Unable to execute command: ">> \o err]

\* The rest of Create / Update with the state written whatever
\* executeCommand returned.
HandlerEpilogueRecordingFailure(op, r) ==
  /\ execDiags' = IF r.err # NoErr THEN <<ExecDiag(r.err)>> ELSE <<>>
  /\ execState' = [id |-> "host/cmd", command |-> execPlan.command,
                   triggers |-> execPlan.triggers,
                   exit_code |-> r.exitCode,
                   stdout |-> r.stdout, stderr |-> r.stderr]

\* The rest of Create / Update once executeCommand has returned.
HandlerEpilogue(op, r) ==
  IF r.err # NoErr
  THEN /\ execDiags' = <<ExecDiag(r.err)>>
       /\ execState' = execState
  ELSE /\ execDiags' = <<>>
       /\ execState' = [id |-> "host/cmd", command |-> execPlan.command,
                        triggers |-> execPlan.triggers,
                        exit_code |-> r.exitCode,
                        stdout |-> r.stdout, stderr |-> r.stderr]

\* ----------------------------------------------------- slicer client Exec
\* A frame of the remote decoded into a result chunk: ExitCode is a Go int,
\* a frame that sets no exit code decodes to the zero value.
DecodeFrame(f, cause) ==
  [Stdout |-> f.stdout, Stderr |-> f.stderr,
   ExitCode |-> IF f.hasExit THEN f.exit ELSE 0,
   Error |-> f.error, hasExit |-> f.hasExit, cause |-> cause]

TerminalChunk(cause, msg) ==
  [Stdout |-> <<>>, Stderr |-> <<>>, ExitCode |-> 0, Error |-> <<msg>>,
   hasExit |-> FALSE, cause |-> cause]

\* The ways the engine itself fails an open stream: the session timeout is
\* not one of them.
ExecStreamFailuresHttp(a, timeout) ==
  {"break"} \cup (IF a > timeout THEN {"timeout"} ELSE {})
ExecStreamFailures(a, timeout) == {"break"}

FailureMessage(cause) ==
  CASE cause = "break" -> "connection broke"
    [] cause = "timeout" -> "request timeout"
    [] cause = "cancel" -> "context canceled"

\* What a stream has carried so far: the concatenated stdout and stderr
\* fragments of every chunk, the exit code of the last chunk that set one,
\* and the first chunk that carried an error with the output before it.
NoneSeen ==
  [n |-> 0, stdout |-> <<>>, stderr |-> <<>>, lastExit |-> None,
   late |-> FALSE, failed |-> NoRet]

Observe(s, c) ==
  [n |-> s.n + 1,
   stdout |-> s.stdout \o c.Stdout,
   stderr |-> s.stderr \o c.Stderr,
   lastExit |-> IF c.hasExit THEN Some(c.ExitCode) ELSE s.lastExit,
   late |-> (s.late \/ age > httpTimeout),
   failed |-> IF s.failed = NoRet /\ c.Error # <<>>
              THEN [error |-> c.Error, cause |-> c.cause,
                    stdout |-> s.stdout, stderr |-> s.stderr, chunk |-> c]
              ELSE s.failed]

\* ------------------------------------------------- exec handlers: the start
\* Create / Update up to the call of client.Exec inside executeCommand; the
\* call either opens the stream or returns a transport error, and then the
\* handler finishes at once with ("", "", -1, err).
ExecFreshVars ==
  /\ seen' = NoneSeen
  /\ stdoutBuilder' = <<>>
  /\ stderrBuilder' = <<>>
  /\ exitCode' = 0
  /\ ctxCancelled' = FALSE
  /\ cancelMark' = NoRet
  /\ age' = 0
  /\ outChunk' = NoChunk

ExecOpen(op) ==
  /\ configured
  /\ execOp = "none"
  /\ op = "update" => execState # NoState
  /\ op = "create" => execState = NoState
  /\ execOp' = op
  /\ prodPc' = "recv"
  /\ execPc' = "reading"
  /\ ret' = NoRet
  /\ execDiags' = <<>>
  /\ ExecFreshVars
  /\ UNCHANGED outsideExec
  /\ UNCHANGED <<configured, httpTimeout, framesLeft, execState>>

ExecOpenFails(op) ==
  /\ configured
  /\ execOp = "none"
  /\ op = "update" => execState # NoState
  /\ op = "create" => execState = NoState
  /\ LET r == [stdout |-> <<>>, stderr |-> <<>>, exitCode |-> -1,
               err |-> <<"transport error">>]
     IN /\ ret' = r
        /\ HandlerEpilogue(op, r)
  /\ execOp' = "none"
  /\ prodPc' = "idle"
  /\ execPc' = "returned"
  /\ ExecFreshVars
  /\ UNCHANGED outsideExec
  /\ UNCHANGED <<configured, httpTimeout, framesLeft>>

\* ------------------------------------------------ the producer (the engine)
\* One inbound frame becomes exactly one chunk, offered to the caller before
\* the next frame is read.
RemoteFrame(f) ==
  /\ prodPc = "recv"
  /\ ~ctxCancelled
  /\ framesLeft > 0
  /\ framesLeft' = framesLeft - 1
  /\ outChunk' = DecodeFrame(f, "frame")
  /\ prodPc' = "send"
  /\ UNCHANGED outsideExec
  /\ UNCHANGED <<configured, httpTimeout, execOp, seen, execPc, stdoutBuilder,
                 stderrBuilder, exitCode, ret, ctxCancelled, cancelMark, age,
                 execState, execDiags>>

\* The remote ends the stream; the engine closes the chunk sequence.
RemoteEOF ==
  /\ prodPc = "recv"
  /\ ~ctxCancelled
  /\ prodPc' = "closed"
  /\ UNCHANGED outsideExec
  /\ UNCHANGED <<configured, httpTimeout, execOp, outChunk, seen, execPc,
                 stdoutBuilder, stderrBuilder, exitCode, ret, ctxCancelled,
                 cancelMark, age, framesLeft, execState, execDiags>>

\* The engine fails the stream: a single terminal error chunk.
StreamFails ==
  /\ prodPc = "recv"
  /\ ~ctxCancelled
  /\ \E cause \in ExecStreamFailures(age, httpTimeout) :
       outChunk' = TerminalChunk(cause, FailureMessage(cause))
  /\ prodPc' = "send"
  /\ UNCHANGED outsideExec
  /\ UNCHANGED <<configured, httpTimeout, execOp, seen, execPc, stdoutBuilder,
                 stderrBuilder, exitCode, ret, ctxCancelled, cancelMark, age,
                 framesLeft, execState, execDiags>>

\* The caller's context is cancelled: the engine stops waiting for frames and
\* surfaces the cancellation as a terminal error chunk.
ProducerCancelled ==
  /\ prodPc = "recv"
  /\ ctxCancelled
  /\ outChunk' = TerminalChunk("cancel", FailureMessage("cancel"))
  /\ prodPc' = "send"
  /\ UNCHANGED outsideExec
  /\ UNCHANGED <<configured, httpTimeout, execOp, seen, execPc, stdoutBuilder,
                 stderrBuilder, exitCode, ret, ctxCancelled, cancelMark, age,
                 framesLeft, execState, execDiags>>

\* After a terminal chunk was taken the engine closes the sequence.
ProducerCloses ==
  /\ prodPc = "closing"
  /\ prodPc' = "closed"
  /\ UNCHANGED outsideExec
  /\ UNCHANGED <<configured, httpTimeout, execOp, outChunk, seen, execPc,
                 stdoutBuilder, stderrBuilder, exitCode, ret, ctxCancelled,
                 cancelMark, age, framesLeft, execState, execDiags>>

AfterSend(c) == IF c.cause = "frame" THEN "recv" ELSE "closing"

\* ------------------------------------------- executeCommand: the range loop
\* One iteration on a chunk that carries no error.
ReceiveOutput ==
  /\ execPc = "reading"
  /\ prodPc = "send"
  /\ ~ChunkFailed(outChunk)
  /\ seen' = Observe(seen, outChunk)
  /\ stdoutBuilder' = IF outChunk.Stdout # <<>>
                      THEN WriteString(stdoutBuilder, outChunk.Stdout)
                      ELSE stdoutBuilder
  /\ stderrBuilder' = IF outChunk.Stderr # <<>>
                      THEN WriteString(stderrBuilder, outChunk.Stderr)
                      ELSE stderrBuilder
  /\ exitCode' = outChunk.ExitCode
  /\ prodPc' = AfterSend(outChunk)
  /\ outChunk' = NoChunk
  /\ UNCHANGED outsideExec
  /\ UNCHANGED <<configured, httpTimeout, execOp, execPc, ret, ctxCancelled,
                 cancelMark, age, framesLeft, execState, execDiags>>

\* One iteration on a chunk that carries an error: executeCommand returns at
\* once, and the handler finishes with the error.
ReceiveError ==
  /\ execPc = "reading"
  /\ prodPc = "send"
  /\ ChunkFailed(outChunk)
  /\ seen' = Observe(seen, outChunk)
  /\ LET r == [stdout |-> stdoutBuilder, stderr |-> stderrBuilder,
               exitCode |-> outChunk.ExitCode,
               err |-> ExecErrorf(outChunk.Error)]
     IN /\ ret' = r
        /\ HandlerEpilogue(execOp, r)
  /\ execPc' = "returned"
  /\ execOp' = "none"
  /\ prodPc' = AfterSend(outChunk)
  /\ outChunk' = NoChunk
  /\ UNCHANGED outsideExec
  /\ UNCHANGED <<configured, httpTimeout, stdoutBuilder, stderrBuilder,
                 exitCode, ctxCancelled, cancelMark, age, framesLeft>>

\* The channel is closed: the loop ends, executeCommand returns with a nil
\* error, and the handler records the result.
ReceiveClosed ==
  /\ execPc = "reading"
  /\ prodPc = "closed"
  /\ LET r == [stdout |-> stdoutBuilder, stderr |-> stderrBuilder,
               exitCode |-> exitCode, err |-> NoErr]
     IN /\ ret' = r
        /\ HandlerEpilogue(execOp, r)
  /\ execPc' = "returned"
  /\ execOp' = "none"
  /\ UNCHANGED outsideExec
  /\ UNCHANGED <<configured, httpTimeout, prodPc, outChunk, seen,
                 stdoutBuilder, stderrBuilder, exitCode, ctxCancelled,
                 cancelMark, age, framesLeft>>

\* ------------------------------------------------------------ environment
\* The engine is in its Streaming state: it waits for a frame, or offers a
\* chunk that carries no error.
MidStream ==
  \/ prodPc = "recv"
  \/ prodPc = "send" /\ outChunk.Error = <<>>

\* The caller cancels the context of a handler that is reading the stream.
Cancel ==
  /\ execPc = "reading"
  /\ ~ctxCancelled
  /\ ctxCancelled' = TRUE
  /\ cancelMark' = [stdout |-> stdoutBuilder, stderr |-> stderrBuilder,
                    streaming |-> MidStream]
  /\ UNCHANGED outsideExec
  /\ UNCHANGED <<configured, httpTimeout, execOp, prodPc, outChunk, seen,
                 execPc, stdoutBuilder, stderrBuilder, exitCode, ret, age,
                 framesLeft, execState, execDiags>>

\* Time passes while the stream is open.
Tick ==
  /\ prodPc = "recv"
  /\ execPc = "reading"
  /\ age <= httpTimeout
  /\ age' = age + TickSeconds
  /\ UNCHANGED outsideExec
  /\ UNCHANGED <<configured, httpTimeout, execOp, prodPc, outChunk, seen,
                 execPc, stdoutBuilder, stderrBuilder, exitCode, ret,
                 ctxCancelled, cancelMark, framesLeft, execState, execDiags>>

ExecInit ==
  /\ configured = FALSE
  /\ httpTimeout = 0
  /\ execOp = "none"
  /\ prodPc = "idle"
  /\ outChunk = NoChunk
  /\ seen = NoneSeen
  /\ execPc = "idle"
  /\ stdoutBuilder = <<>>
  /\ stderrBuilder = <<>>
  /\ exitCode = 0
  /\ ret = NoRet
  /\ ctxCancelled = FALSE
  /\ cancelMark = NoRet
  /\ age = 0
  /\ framesLeft = MaxChunks
  /\ execState = NoState
  /\ execDiags = <<>>
  /\ execPlan = [command |-> <<"c1">>, triggers |-> NullAttr]

\* ------------------------------------------------------ the file resource
\* byte strings up to a length
BytesUpTo(n) == UNION {[1..k -> FileBytes] : k \in 0..n}

\* []byte(s): the UTF-8 encoding of a string ("e-acute" is U+00E9)
Utf8(c) == IF c = "a" THEN <<97>> ELSE <<195, 169>>

RECURSIVE StringBytes(_)
StringBytes(str) ==
  IF str = <<>> THEN <<>> ELSE Utf8(str[1]) \o StringBytes(Tail(str))

\* sha256.Sum256, with a 16-bit stand-in for the digest
RECURSIVE Fold(_, _)
Fold(bytes, acc) ==
  IF bytes = <<>> THEN acc
  ELSE Fold(Tail(bytes), (acc * 31 + bytes[1] + 1) % 65521)

Sha256(bytes) == Fold(bytes, 7)

HexDigit(d) ==
  CASE d = 0 -> "0" [] d = 1 -> "1" [] d = 2 -> "2" [] d = 3 -> "3"
    [] d = 4 -> "4" [] d = 5 -> "5" [] d = 6 -> "6" [] d = 7 -> "7"
    [] d = 8 -> "8" [] d = 9 -> "9" [] d = 10 -> "a" [] d = 11 -> "b"
    [] d = 12 -> "c" [] d = 13 -> "d" [] d = 14 -> "e" [] d = 15 -> "f"

\* fmt.Sprintf("%x", hash): two hex digits per digest byte
Hex(h) ==
  <<HexDigit(h \div 4096), HexDigit((h \div 256) % 16),
    HexDigit((h \div 16) % 16), HexDigit(h % 16)>>

\* hash := sha256.Sum256(content); contentHash := fmt.Sprintf("%x", hash)
ContentHashOfNothing(bytes) == Hex(Sha256(<<>>))
ContentHash(bytes) == Hex(Sha256(bytes))

\* os.ReadFile: the bytes of the file at a path, None when it cannot be
\* read; the only file there is is the one at path "src"
ReadFile(path) == IF path = <<"src">> THEN fs ELSE None

\* copyFile after staging: go on to the upload, or return the error
AfterStageIgnoringError(ok) == "send"
AfterStage(ok) == IF ok THEN "send" ELSE "failed"

\* fmt.Sprintf("Unable to copy file: %s", err)
CopyDiag(err) ==
  [summary |-> "Copy Error", detail |-> <<"Unable to copy file: ">> \o err]

Plans ==
  [content : {NullAttr} \cup {StringValue(v) : v \in ContentStrings},
   source : {NullAttr, StringValue(<<"src">>), StringValue(<<"gone">>)}]

\* copyFile returned an error: the handler adds the diagnostic and returns,
\* the recorded state stays as it was; the deferred os.Remove has run.
CopyFails(err) ==
  /\ fileErr' = err
  /\ fileDiags' = <<CopyDiag(err)>>
  /\ filePc' = "done"
  /\ fileOp' = "none"
  /\ tmpFile' = None
  /\ UNCHANGED fileState

\* FileResource.Create up to the call of copyFile: the two validations.
FileCreateRejected(p) ==
  /\ configured
  /\ fileOp = "none"
  /\ fileOps < MaxFileOps
  /\ fileOps' = fileOps + 1
  /\ fileState = NoState
  /\ \/ p.content.null /\ p.source.null
     \/ ~p.content.null /\ ~p.source.null
  /\ plan' = p
  /\ fileDiags' =
       <<IF p.content.null
         THEN [summary |-> "Missing File Content",
               detail |-> <<"Either 'content' or 'source' must be specified.">>]
         ELSE [summary |-> "Conflicting Attributes",
               detail |-> <<"Only one of 'content' or 'source' can be specified.">>]>>
  /\ filePc' = "done"
  /\ content' = None
  /\ contentHash' = None
  /\ staged' = "none"
  /\ sent' = None
  /\ remoteCalls' = 0
  /\ cpResult' = "none"
  /\ fileErr' = NoErr
  /\ UNCHANGED <<fileOp, fs, tmpFile, fileState, fsWrites>>
  /\ UNCHANGED outsideFile

\* Create (past its validations) or Update enters copyFile.
FileStart(op, p) ==
  /\ configured
  /\ fileOp = "none"
  /\ fileOps < MaxFileOps
  /\ fileOps' = fileOps + 1
  /\ op = "create" => /\ fileState = NoState
                      /\ p.content.null # p.source.null
  /\ op = "update" => fileState # NoState
  /\ fileOp' = op
  /\ plan' = p
  /\ filePc' = "read"
  /\ content' = None
  /\ contentHash' = None
  /\ staged' = "none"
  /\ sent' = None
  /\ remoteCalls' = 0
  /\ cpResult' = "none"
  /\ fileErr' = NoErr
  /\ fileDiags' = <<>>
  /\ UNCHANGED <<fs, tmpFile, fileState, fsWrites>>
  /\ UNCHANGED outsideFile

\* copyFile: the payload is taken from content, or read from the source.
FileRead ==
  /\ filePc = "read"
  /\ IF ~plan.content.null
     THEN /\ content' = Some(StringBytes(ValueString(plan.content)))
          /\ filePc' = "hash"
          /\ UNCHANGED <<fileOp, tmpFile, fileErr, fileState, fileDiags>>
     ELSE LET read == ReadFile(ValueString(plan.source))
          IN IF read # None
             THEN /\ content' = read
                  /\ filePc' = "hash"
                  /\ UNCHANGED <<fileOp, tmpFile, fileErr, fileState, fileDiags>>
             ELSE /\ CopyFails(<<"failed to read source file: ", "no such file">>)
                  /\ UNCHANGED content
  /\ UNCHANGED <<plan, fs, contentHash, staged, sent, remoteCalls, cpResult,
                 fsWrites, fileOps>>
  /\ UNCHANGED outsideFile

\* copyFile: the digest of the payload.
FileHash ==
  /\ filePc = "hash"
  /\ contentHash' = Some(ContentHash(content[1]))
  /\ filePc' = "stage"
  /\ UNCHANGED <<fileOp, plan, fs, content, tmpFile, staged, sent,
                 remoteCalls, cpResult, fileErr, fileState, fileDiags,
                 fsWrites, fileOps>>
  /\ UNCHANGED outsideFile

\* copyFile: os.CreateTemp and tmpFile.Write, which succeed or fail.
FileStage(ok) ==
  /\ filePc = "stage"
  /\ staged' = IF ok THEN "ok" ELSE "failed"
  /\ IF AfterStage(ok) = "send"
     THEN /\ filePc' = "send"
          /\ tmpFile' = IF ok THEN content ELSE None
          /\ UNCHANGED <<fileOp, fileErr, fileState, fileDiags>>
     ELSE CopyFails(<<"failed to create temp file: ", "no space">>)
  /\ UNCHANGED <<plan, fs, content, contentHash, sent, remoteCalls, cpResult,
                 fsWrites, fileOps>>
  /\ UNCHANGED outsideFile

\* What the remote may answer to CpToVM: the bytes are taken and owner and
\* permissions applied, the upload fails, or the bytes are taken and applying
\* owner or permissions fails.
CpOutcomes == {"ok", "upload failed", "permissions failed"}

\* the error client.CpToVM returns for an answer of the remote
CpToVMError(outcome) == IF outcome = "ok" THEN NoErr ELSE <<outcome>>

\* copyFile's return once client.CpToVM has returned err: ("", wrapped err)
\* or (contentHash, nil)
CopyFileReturnIgnoringError(err, hash) == [hash |-> hash, err |-> NoErr]
CopyFileReturn(err, hash) ==
  IF err # NoErr
  THEN [hash |-> <<>>, err |-> <<"failed to copy file to VM: ">> \o err]
  ELSE [hash |-> hash, err |-> NoErr]

\* copyFile: client.CpToVM uploads the temp file in binary mode and has the
\* remote apply owner and permissions, in one call that succeeds or fails.
\* Then copyFile returns and the handler finishes.
FileSend(outcome) ==
  /\ filePc = "send"
  /\ remoteCalls' = remoteCalls + 1
  /\ cpResult' = outcome
  /\ sent' = IF outcome = "upload failed" THEN sent ELSE tmpFile
  /\ LET r == CopyFileReturn(CpToVMError(outcome), contentHash[1])
     IN IF r.err = NoErr
        THEN /\ fileErr' = NoErr
             /\ fileDiags' = <<>>
             /\ fileState' = [id |-> "host:dest", content |-> plan.content,
                              source |-> plan.source,
                              content_hash |-> r.hash]
             /\ filePc' = "done"
             /\ fileOp' = "none"
             /\ tmpFile' = None
        ELSE CopyFails(r.err)
  /\ UNCHANGED <<plan, fs, content, contentHash, staged, fsWrites, fileOps>>
  /\ UNCHANGED outsideFile

\* Something else on the machine rewrites or removes the source file.
FsWrite(bytes) ==
  /\ fsWrites < MaxFsWrites
  /\ fs # bytes
  /\ fs' = bytes
  /\ fsWrites' = fsWrites + 1
  /\ UNCHANGED <<fileOp, filePc, plan, content, contentHash, tmpFile, staged,
                 sent, remoteCalls, cpResult, fileErr, fileState, fileDiags,
                 fileOps>>
  /\ UNCHANGED outsideFile

\* What the remote may answer to the exec of rm -f: the stream cannot be
\* opened, a chunk carries an error, rm exits non-zero, or the file is removed
\* (rm -f also exits zero when there is no file).
DeleteOutcomes == {"open failed", "chunk error", "exit non-zero", "removed"}

\* the error client.Exec returns to Delete
DeleteExecError(outcome) ==
  IF outcome = "open failed" THEN <<"transport error">> ELSE NoErr

\* the diagnostics of Delete with the failed open reported as an error
DeleteDiagsAsError(err) ==
  IF err # NoErr
  THEN <<[severity |-> "error", summary |-> "Delete Error",
          detail |-> <<"Unable to delete file: ">> \o err]>>
  ELSE <<>>

\* the diagnostics of Delete once client.Exec has returned err
DeleteDiags(err) ==
  IF err # NoErr
  THEN <<[severity |-> "warning", summary |-> "Delete Warning",
          detail |-> <<"Unable to delete file: ">> \o err]>>
  ELSE <<>>

\* resp.Diagnostics.HasError for the diagnostics of Delete
HasError(diags) == \E i \in 1..Len(diags) : diags[i].severity = "error"

\* FileResource.Delete: rm -f of the destination through client.Exec, the
\* chunks drained and ignored. The framework removes the state when Delete
\* returns without an error diagnostic. sent stands for the file on the VM.
FileDelete(outcome) ==
  /\ configured
  /\ fileOp = "none"
  /\ fileState # NoState
  /\ fileOps < MaxFileOps
  /\ fileOps' = fileOps + 1
  /\ filePc' = "deleted"
  /\ fileErr' = DeleteExecError(outcome)
  /\ fileDiags' = DeleteDiags(DeleteExecError(outcome))
  /\ fileState' = IF HasError(fileDiags') THEN fileState ELSE NoState
  /\ sent' = IF outcome = "removed" THEN None ELSE sent
  /\ UNCHANGED <<fileOp, plan, fs, content, contentHash, tmpFile, staged,
                 remoteCalls, cpResult, fsWrites>>
  /\ UNCHANGED outsideFile

\* ======================================================= the vm resource
\* types.List and types.Map; a map is the set of its <<key, value>> entries
ListValue(v) == [null |-> FALSE, value |-> v]
MapValue(m) == [null |-> FALSE, value |-> m]

BytesPerGiB == 1073741824

\* slicer.GiB
GiB(n) == n * BytesPerGiB

\* what a host group gives a VM whose create request leaves the size unset
HostGroupCPUs == 1
HostGroupRamGB == 1

\* strings.Index: the place of the first c in s, 0 when there is none
Index(s, c) ==
  IF \E i \in 1..Len(s) : s[i] = c
  THEN CHOOSE i \in 1..Len(s) : s[i] = c /\ \A j \in 1..(i - 1) : s[j] # c
  ELSE 0

\* strings.Split(s, c)
RECURSIVE Split(_, _)
Split(s, c) ==
  IF Index(s, c) = 0 THEN <<s>>
  ELSE <<SubSeq(s, 1, Index(s, c) - 1)>>
       \o Split(SubSeq(s, Index(s, c) + 1, Len(s)), c)

\* strings.SplitN without the limit of two parts
SplitEvery(s, c) == Split(s, c)

\* strings.SplitN(s, c, 2)
SplitN2(s, c) ==
  IF Index(s, c) = 0 THEN <<s>>
  ELSE <<SubSeq(s, 1, Index(s, c) - 1), SubSeq(s, Index(s, c) + 1, Len(s))>>

\* Parse IP (remove CIDR notation if present)
StripCIDRKeepingLast(ip) ==
  IF Contains(ip, <<"/">>) THEN Split(ip, "/")[Len(Split(ip, "/"))] ELSE ip
StripCIDR(ip) ==
  IF Contains(ip, <<"/">>) THEN Split(ip, "/")[1] ELSE ip

\* the value Create puts in an integer field of the request: the planned
\* one when it is set and positive, else the field's zero value
NonNullOrZero(attr) == IF ~attr.null THEN ValueInt64(attr) ELSE 0
PositiveOrZero(attr) ==
  IF ~attr.null /\ ValueInt64(attr) > 0 THEN ValueInt64(attr) ELSE 0

\* fmt.Sprintf("%s=%s", k, v)
EncodeTag(e) == e[1] \o <<"=">> \o e[2]

\* the tag strings of a map, in any order a range over the map may take
TagStrings(m) ==
  {s \in [1..Cardinality(m) -> {EncodeTag(e) : e \in m}] :
     {s[i] : i \in 1..Cardinality(m)} = {EncodeTag(e) : e \in m}}

\* Read's loop over found.Tags: tags[parts[0]] = parts[1] for each tag
\* string that has a '='
RECURSIVE ParseTags(_, _)
ParseTags(tags, m) ==
  IF tags = <<>> THEN m
  ELSE LET parts == SplitN2(Head(tags), "=")
       IN ParseTags(Tail(tags),
                    IF Len(parts) = 2
                    THEN {e \in m : e[1] # parts[1]} \cup {<<parts[1], parts[2]>>}
                    ELSE m)

\* slicer.SlicerCreateNodeRequest as Create builds it; a field that is not
\* assigned holds its zero value
CreateRequest(p, tags) ==
  [Persistent |-> ValueBool(p.persistent),
   CPUs |-> PositiveOrZero(p.cpus),
   RamBytes |-> GiB(PositiveOrZero(p.ram_gb)),
   DiskImage |-> IF ~p.disk_image.null THEN ValueString(p.disk_image) ELSE <<>>,
   ImportUser |-> IF ~p.import_user.null THEN ValueString(p.import_user) ELSE <<>>,
   SSHKeys |-> IF ~p.ssh_keys.null THEN p.ssh_keys.value ELSE <<>>,
   Userdata |-> IF ~p.userdata.null THEN ValueString(p.userdata) ELSE <<>>,
   Tags |-> IF ~p.tags.null THEN tags ELSE <<>>,
   Secrets |-> IF ~p.secrets.null THEN p.secrets.value ELSE <<>>]

\* the node the remote makes of a create request
CreateNode(req, ip) ==
  [Hostname |-> <<"vm-1">>,
   IP |-> ip,
   CPUs |-> IF req.CPUs > 0 THEN req.CPUs ELSE HostGroupCPUs,
   RamBytes |-> IF req.RamBytes > 0 THEN req.RamBytes ELSE GiB(HostGroupRamGB),
   Tags |-> req.Tags,
   Arch |-> <<"amd64">>,
   CreatedAt |-> <<"2024-01-01T00:00:00Z">>]

\* the IP strings the remote may report
RemoteIPs ==
  {<<"10.0.0.5">>, <<"10.0.0.5", "/", "24">>, <<"/", "24">>,
   <<"10.0.0.5", "/", "24", "/", "8">>}

TagMaps == {{}, {<<<<"k">>, <<"v">>>>}}

VMPlanSpace ==
  [host_group : {StringValue(<<"w1-medium">>)},
   cpus : {NullAttr, Int64Value(0), Int64Value(2)},
   ram_gb : {Int64Value(-1), Int64Value(0), Int64Value(1)},
   persistent : {BoolValue(FALSE)},
   disk_image : {NullAttr, StringValue(<<>>), StringValue(<<"img">>)},
   import_user : {NullAttr, StringValue(<<"octocat">>)},
   ssh_keys : {NullAttr, ListValue(<<<<"ssh-ed25519">>>>)},
   userdata : {NullAttr, StringValue(<<"#cloud-config">>)},
   tags : {NullAttr} \cup {MapValue(m) : m \in TagMaps \ {{}}},
   secrets : {NullAttr, ListValue(<<<<"db-password">>>>)}]

\* the plans a Create may be called with; import_user, ssh_keys, userdata
\* and secrets are set together or left out together
VMPlans ==
  {p \in VMPlanSpace :
     /\ p.ssh_keys.null = p.import_user.null
     /\ p.userdata.null = p.import_user.null
     /\ p.secrets.null = p.import_user.null}

\* the plans an Update may be called with: the recorded state with new
\* values for attributes that do not force a replacement
VMUpdatePlans ==
  IF vmState = NoState THEN {}
  ELSE
  {[vmState EXCEPT !.cpus = c, !.tags = t] :
     c \in {Int64Value(0), Int64Value(2)},
     t \in {NullAttr} \cup {MapValue(m) : m \in TagMaps \ {{}}}}

\* Create's data with id and hostname taken from the configuration
CreatedStateNamedByClient(p, result) ==
  [id |-> p.host_group,
   host_group |-> p.host_group,
   hostname |-> p.host_group,
   ip |-> StringValue(StripCIDR(result.IP)),
   cpus |-> p.cpus,
   ram_gb |-> p.ram_gb,
   persistent |-> p.persistent,
   disk_image |-> p.disk_image,
   import_user |-> p.import_user,
   ssh_keys |-> p.ssh_keys,
   userdata |-> p.userdata,
   tags |-> p.tags,
   secrets |-> p.secrets,
   arch |-> StringValue(result.Arch),
   created_at |-> StringValue(result.CreatedAt)]

\* Create's data once the computed values are set
CreatedState(p, result) ==
  [id |-> StringValue(result.Hostname),
   host_group |-> p.host_group,
   hostname |-> StringValue(result.Hostname),
   ip |-> StringValue(StripCIDR(result.IP)),
   cpus |-> p.cpus,
   ram_gb |-> p.ram_gb,
   persistent |-> p.persistent,
   disk_image |-> p.disk_image,
   import_user |-> p.import_user,
   ssh_keys |-> p.ssh_keys,
   userdata |-> p.userdata,
   tags |-> p.tags,
   secrets |-> p.secrets,
   arch |-> StringValue(result.Arch),
   created_at |-> StringValue(result.CreatedAt)]

\* Read's data with cpus, ram_gb and tags copied from the found node
\* whatever it reports
ReadStateOverwriting(data, found) ==
  [data EXCEPT
     !.ip = StringValue(StripCIDR(found.IP)),
     !.arch = StringValue(found.Arch),
     !.created_at = StringValue(found.CreatedAt),
     !.cpus = Int64Value(found.CPUs),
     !.ram_gb = Int64Value(found.RamBytes \div (1024 * 1024 * 1024)),
     !.tags = MapValue(ParseTags(found.Tags, {}))]

\* Read's data once the found node is copied into it
ReadState(data, found) ==
  [data EXCEPT
     !.ip = StringValue(StripCIDR(found.IP)),
     !.arch = StringValue(found.Arch),
     !.created_at = StringValue(found.CreatedAt),
     !.cpus = IF found.CPUs > 0 THEN Int64Value(found.CPUs) ELSE @,
     !.ram_gb = IF found.RamBytes > 0
                THEN Int64Value(found.RamBytes \div (1024 * 1024 * 1024))
                ELSE @,
     !.tags = IF Len(found.Tags) > 0
              THEN MapValue(ParseTags(found.Tags, {}))
              ELSE @]

\* the search reduced to taking the first node listed
FindFirstVM(hostname) ==
  IF remoteVM = <<>> THEN None ELSE Some(remoteVM[1])

\* ListVMs and the search for a hostname: the node found, None if none
FindVM(hostname) ==
  LET at == {i \in 1..Len(remoteVM) : remoteVM[i].Hostname = hostname}
  IN IF at = {} THEN None
     ELSE Some(remoteVM[CHOOSE i \in at : \A j \in at : i <= j])

\* the client calls VMResource.Update makes
UpdateCallsPatch(p) == <<[call |-> "PatchVM", CPUs |-> ValueInt64(p.cpus)]>>
UpdateCalls(p) == <<>>

\* the remote after a sequence of client calls that change a VM in place
RECURSIVE ApplyCalls(_, _)
ApplyCalls(rv, calls) ==
  IF calls = <<>> \/ rv = None THEN rv
  ELSE ApplyCalls(Some([rv[1] EXCEPT !.CPUs = Head(calls).CPUs]), Tail(calls))

VMDiag(what) == [summary |-> "Client Error", detail |-> what]

\* VMResource.Create; the remote either makes the node or refuses
VMCreate(p, ok, ip) ==
  /\ configured
  /\ vmState = NoState
  /\ remoteVM = None
  /\ vmOp' = "create"
  /\ vmRequests' = <<"CreateVM">>
  /\ vmData' = NoState
  /\ \E tags \in TagStrings(IF p.tags.null THEN {} ELSE p.tags.value) :
       LET req == CreateRequest(p, tags)
           result == CreateNode(req, ip)
       IN /\ vmReq' = Some([plan |-> p, req |-> req])
          /\ IF ok
             THEN /\ remoteVM' = Some(result)
                  /\ vmState' = CreatedState(p, result)
                  /\ vmDiags' = <<>>
                  /\ vmExposed' = Some([by |-> "create", remote |-> result.IP,
                                        ip |-> ValueString(vmState'.ip)])
             ELSE /\ vmDiags' = <<VMDiag("Unable to create VM")>>
                  /\ vmExposed' = None
                  /\ UNCHANGED <<remoteVM, vmState>>
  /\ UNCHANGED <<execVars, execPlan, fileVars, providerVars, secretVars>>

\* VMResource.Read; the listing succeeds or fails
VMRead(ok) ==
  /\ configured
  /\ vmState # NoState
  /\ vmOp' = "read"
  /\ vmRequests' = <<"ListVMs">>
  /\ vmReq' = None
  /\ vmData' = NoState
  /\ IF ~ok
     THEN /\ vmDiags' = <<VMDiag("Unable to list VMs")>>
          /\ vmExposed' = None
          /\ UNCHANGED vmState
     ELSE LET found == FindVM(ValueString(vmState.hostname))
          IN /\ vmDiags' = <<>>
             /\ IF found = None
                THEN /\ vmState' = NoState
                     /\ vmExposed' = None
                ELSE /\ vmState' = ReadState(vmState, found[1])
                     /\ vmExposed' = Some([by |-> "read", remote |-> found[1].IP,
                                           ip |-> ValueString(vmState'.ip)])
  /\ UNCHANGED remoteVM
  /\ UNCHANGED <<execVars, execPlan, fileVars, providerVars, secretVars>>

\* VMResource.Update: the plan is written to the state
VMUpdate(p) ==
  /\ configured
  /\ vmState # NoState
  /\ vmOp' = "update"
  /\ vmRequests' = UpdateCalls(p)
  /\ remoteVM' = ApplyCalls(remoteVM, UpdateCalls(p))
  /\ vmReq' = None
  /\ vmData' = NoState
  /\ vmExposed' = None
  /\ vmDiags' = <<>>
  /\ vmState' = p
  /\ UNCHANGED <<execVars, execPlan, fileVars, providerVars, secretVars>>

\* DeleteVM as the remote answers it: an absent VM is "not found", and a
\* request may fail below the application layer
DeleteVMError(ok) ==
  IF remoteVM = None THEN <<"not found">>
  ELSE IF ok THEN NoErr ELSE <<"transport error">>

\* VMResource.Delete; without an error the framework removes the state
VMDelete(ok) ==
  /\ configured
  /\ vmState # NoState
  /\ vmOp' = "delete"
  /\ vmRequests' = <<"DeleteVM">>
  /\ vmReq' = None
  /\ vmData' = NoState
  /\ vmExposed' = None
  /\ IF DeleteVMError(ok) = NoErr
     THEN /\ remoteVM' = None
          /\ vmState' = NoState
          /\ vmDiags' = <<>>
     ELSE /\ vmDiags' = <<VMDiag("Unable to delete VM")>>
          /\ UNCHANGED <<remoteVM, vmState>>
  /\ UNCHANGED <<execVars, execPlan, fileVars, providerVars, secretVars>>

\* the VM is deleted outside of Terraform
RemoteRemovesVM ==
  /\ remoteVM # None
  /\ remoteVM' = None
  /\ UNCHANGED <<vmOp, vmState, vmDiags, vmReq, vmRequests, vmExposed, vmData>>
  /\ UNCHANGED <<execVars, execPlan, fileVars, providerVars, secretVars>>

\* a VM is created outside of Terraform
RemoteAddsVM(vm) ==
  /\ remoteVM = None
  /\ remoteVM' = Some(vm)
  /\ UNCHANGED <<vmOp, vmState, vmDiags, vmReq, vmRequests, vmExposed, vmData>>
  /\ UNCHANGED <<execVars, execPlan, fileVars, providerVars, secretVars>>

\* the VM's record changes on the remote: another CPU count, RAM size or
\* tag list, a zero or an empty list where the remote reports none
RemoteChangesVM(cpus, ramBytes, tags) ==
  /\ remoteVM # None
  /\ remoteVM' = Some([remoteVM[1] EXCEPT !.CPUs = cpus, !.RamBytes = ramBytes,
                                          !.Tags = tags])
  /\ remoteVM' # remoteVM
  /\ UNCHANGED <<vmOp, vmState, vmDiags, vmReq, vmRequests, vmExposed, vmData>>
  /\ UNCHANGED <<execVars, execPlan, fileVars, providerVars, secretVars>>

\* the import IDs a user may give
ImportIDs ==
  {<<"w1-medium", "/", "vm-1">>, <<"w1-medium", "/", "vm-2">>, <<"vm-1">>,
   <<"w1-medium", "/", "vm-1", "/", "x">>}

\* VMResource.ImportState: host_group/hostname
VMImportState(importID) ==
  /\ vmState = NoState
  /\ vmOp' = "import"
  /\ vmRequests' = <<>>
  /\ vmReq' = None
  /\ vmData' = NoState
  /\ vmExposed' = None
  /\ LET parts == SplitN2(importID, "/")
     IN IF Len(parts) # 2
        THEN /\ vmDiags' = <<[summary |-> "Invalid Import ID",
                              detail |-> "Import ID must be in the format: host_group/hostname"]>>
             /\ UNCHANGED vmState
        ELSE /\ vmDiags' = <<>>
             /\ vmState' = [id |-> StringValue(parts[2]),
                            host_group |-> StringValue(parts[1]),
                            hostname |-> StringValue(parts[2]),
                            ip |-> NullAttr,
                            cpus |-> NullAttr,
                            ram_gb |-> NullAttr,
                            persistent |-> NullAttr,
                            disk_image |-> NullAttr,
                            import_user |-> NullAttr,
                            ssh_keys |-> NullAttr,
                            userdata |-> NullAttr,
                            tags |-> NullAttr,
                            secrets |-> NullAttr,
                            arch |-> NullAttr,
                            created_at |-> NullAttr]
  /\ UNCHANGED remoteVM
  /\ UNCHANGED <<execVars, execPlan, fileVars, providerVars, secretVars>>

\* a VM from the listing as the data sources present it
VMModel(vm) ==
  [hostname |-> StringValue(vm.Hostname),
   ip |-> StringValue(StripCIDR(vm.IP)),
   arch |-> StringValue(vm.Arch),
   created_at |-> StringValue(vm.CreatedAt),
   cpus |-> IF vm.CPUs > 0 THEN Int64Value(vm.CPUs) ELSE NullAttr,
   ram_gb |-> IF vm.RamBytes > 0
              THEN Int64Value(vm.RamBytes \div (1024 * 1024 * 1024))
              ELSE NullAttr,
   tags |-> IF Len(vm.Tags) > 0 THEN MapValue(ParseTags(vm.Tags, {}))
            ELSE NullAttr]

\* VMDataSource.Read of the VM with a hostname
VMDataSourceRead(hostname, ok) ==
  /\ configured
  /\ vmOp' = "vm data source"
  /\ vmRequests' = <<"ListVMs">>
  /\ vmReq' = None
  /\ IF ~ok
     THEN /\ vmDiags' = <<VMDiag("Unable to list VMs")>>
          /\ vmData' = NoState
          /\ vmExposed' = None
     ELSE LET found == FindVM(hostname)
          IN IF found = None
             THEN /\ vmDiags' = <<[summary |-> "Not Found",
                                   detail |-> "VM not found"]>>
                  /\ vmData' = NoState
                  /\ vmExposed' = None
             ELSE /\ vmDiags' = <<>>
                  /\ vmData' = VMModel(found[1])
                  /\ vmExposed' = Some([by |-> "vm data source",
                                        remote |-> found[1].IP,
                                        ip |-> ValueString(vmData'.ip)])
  /\ UNCHANGED <<vmState, remoteVM>>
  /\ UNCHANGED <<execVars, execPlan, fileVars, providerVars, secretVars>>

\* matchesFilters with the comparison reduced to equality
MatchesFiltersExactTag(vm, filters) ==
  \A i \in 1..Len(filters) :
    ~filters[i].tag.null =>
      \E j \in 1..Len(vm.Tags) : vm.Tags[j] = ValueString(filters[i].tag)

\* matchesFilters
MatchesFilters(vm, filters) ==
  \A i \in 1..Len(filters) :
    ~filters[i].tag.null =>
      \E j \in 1..Len(vm.Tags) :
        \/ vm.Tags[j] = ValueString(filters[i].tag)
        \/ Contains(vm.Tags[j], ValueString(filters[i].tag))

VMFilters ==
  {<<>>, <<[tag |-> NullAttr]>>, <<[tag |-> StringValue(<<"k">>)]>>,
   <<[tag |-> StringValue(<<"z">>)]>>}

\* the loop of VMsDataSource.Read over the listing: the VMs that match are
\* appended in the order they are listed
RECURSIVE FilterVMs(_, _)
FilterVMs(vms, filters) ==
  IF vms = <<>> THEN <<>>
  ELSE IF MatchesFilters(Head(vms), filters)
       THEN <<Head(vms)>> \o FilterVMs(Tail(vms), filters)
       ELSE FilterVMs(Tail(vms), filters)

\* tag lists and VMs of a remote listing
ListedTags ==
  {<<>>, <<<<"k", "=", "v">>>>, <<<<"k", "=", "v">>, <<"z", "=", "w">>>>}

ListedVMs ==
  [Hostname : {<<"vm-1">>, <<"vm-2">>},
   IP : {<<"10.0.0.5", "/", "24">>},
   CPUs : {HostGroupCPUs},
   RamBytes : {GiB(HostGroupRamGB)},
   Tags : ListedTags,
   Arch : {<<"amd64">>},
   CreatedAt : {<<"2024-01-01T00:00:00Z">>}]

Listings == UNION {[1..n -> ListedVMs] : n \in 0..MaxVMs}

ListingFilterBlocks ==
  {[tag |-> NullAttr], [tag |-> StringValue(<<"k">>)],
   [tag |-> StringValue(<<"=", "w">>)]}

ListingFilters == UNION {[1..n -> ListingFilterBlocks] : n \in 0..MaxFilters}

\* VMsDataSource.Read
VMsDataSourceRead(filters, ok) ==
  /\ configured
  /\ vmOp' = "vms data source"
  /\ vmRequests' = <<"ListVMs">>
  /\ vmReq' = None
  /\ IF ~ok
     THEN /\ vmDiags' = <<VMDiag("Unable to list VMs")>>
          /\ vmData' = NoState
          /\ vmExposed' = None
     ELSE LET filteredVMs == FilterVMs(remoteVM, filters)
          IN /\ vmDiags' = <<>>
             /\ vmData' = [filter |-> filters,
                           vms |-> [i \in 1..Len(filteredVMs) |->
                                      VMModel(filteredVMs[i])],
                           total_count |-> Int64Value(Len(filteredVMs))]
             /\ vmExposed' =
                  IF filteredVMs = <<>> THEN None
                  ELSE Some([by |-> "vms data source",
                             remote |-> filteredVMs[1].IP,
                             ip |-> ValueString(vmData'.vms[1].ip)])
  /\ UNCHANGED <<vmState, remoteVM>>
  /\ UNCHANGED <<execVars, execPlan, fileVars, providerVars, secretVars>>

VMIdle ==
  /\ vmOp = "none"
  /\ vmState = NoState
  /\ vmDiags = <<>>
  /\ remoteVM = None
  /\ vmReq = None
  /\ vmRequests = <<>>
  /\ vmExposed = None
  /\ vmData = NoState

\* =================================================== the secret resource
SecretValues == {<<"v1">>, <<"v2">>}
SecretPermissions == {<<"0600">>, <<"0644">>}
SecretUIDs == {0, 1000}

SecretPlans ==
  [name : {StringValue(<<"db-password">>)},
   value : {StringValue(v) : v \in SecretValues},
   permissions : {StringValue(q) : q \in SecretPermissions},
   uid : {Int64Value(u) : u \in SecretUIDs},
   gid : {Int64Value(0)}]

\* the secret the remote holds after a create or a patch; it keeps the data
\* to itself and lists only the metadata
RemoteSecretOf(name, data, permissions, uid, gid) ==
  [Name |-> name, Data |-> data, Size |-> Len(data),
   Permissions |-> permissions, UID |-> uid, GID |-> gid]

\* ListSecrets and the search for a name: the entry found, None if none
FindSecret(name) ==
  IF remoteSecret # None /\ remoteSecret[1].Name = name
  THEN remoteSecret ELSE None

\* Read's data once the found entry is copied into it
SecretReadStateWithData(data, found) ==
  [data EXCEPT !.value = StringValue(found.Data),
               !.permissions = StringValue(found.Permissions),
               !.uid = Int64Value(found.UID),
               !.gid = Int64Value(found.GID)]
SecretReadState(data, found) ==
  [data EXCEPT !.permissions = StringValue(found.Permissions),
               !.uid = Int64Value(found.UID),
               !.gid = Int64Value(found.GID)]

\* CreateSecret, PatchSecret and DeleteSecret as the remote answers them
CreateSecretError(ok) ==
  IF remoteSecret # None THEN <<"conflict">>
  ELSE IF ok THEN NoErr ELSE <<"transport error">>
PatchSecretError(ok) ==
  IF remoteSecret = None THEN <<"not found">>
  ELSE IF ok THEN NoErr ELSE <<"transport error">>
DeleteSecretError(ok) ==
  IF remoteSecret = None THEN <<"not found">>
  ELSE IF ok THEN NoErr ELSE <<"transport error">>

SecretDiag(what) == [summary |-> "Client Error", detail |-> what]

\* SecretResource.Create
SecretCreate(p, ok) ==
  /\ configured
  /\ secretState = NoState
  /\ secretOp' = "create"
  /\ IF CreateSecretError(ok) = NoErr
     THEN /\ remoteSecret' =
               Some(RemoteSecretOf(ValueString(p.name), ValueString(p.value),
                                   ValueString(p.permissions),
                                   ValueInt64(p.uid), ValueInt64(p.gid)))
          /\ secretState' = [id |-> p.name, name |-> p.name, value |-> p.value,
                             permissions |-> p.permissions, uid |-> p.uid,
                             gid |-> p.gid]
          /\ secretPlanned' = Some(ValueString(p.value))
          /\ secretDiags' = <<>>
     ELSE /\ secretDiags' = <<SecretDiag("Unable to create secret")>>
          /\ UNCHANGED <<remoteSecret, secretState, secretPlanned>>
  /\ UNCHANGED secretData
  /\ UNCHANGED <<execVars, execPlan, fileVars, providerVars, vmVars>>

\* SecretResource.Read; the listing succeeds or fails
SecretRead(ok) ==
  /\ configured
  /\ secretState # NoState
  /\ secretOp' = "read"
  /\ IF ~ok
     THEN /\ secretDiags' = <<SecretDiag("Unable to list secrets")>>
          /\ UNCHANGED secretState
     ELSE LET found == FindSecret(ValueString(secretState.name))
          IN /\ secretDiags' = <<>>
             /\ secretState' = IF found = None THEN NoState
                               ELSE SecretReadState(secretState, found[1])
  /\ UNCHANGED <<remoteSecret, secretPlanned, secretData>>
  /\ UNCHANGED <<execVars, execPlan, fileVars, providerVars, vmVars>>

\* SecretResource.Update; the name forces a replacement, so the plan keeps it
SecretUpdate(p, ok) ==
  /\ configured
  /\ secretState # NoState
  /\ p.name = secretState.name
  /\ secretOp' = "update"
  /\ IF PatchSecretError(ok) = NoErr
     THEN /\ remoteSecret' =
               Some(RemoteSecretOf(ValueString(p.name), ValueString(p.value),
                                   ValueString(p.permissions),
                                   ValueInt64(p.uid), ValueInt64(p.gid)))
          /\ secretState' = [id |-> secretState.id, name |-> p.name,
                             value |-> p.value, permissions |-> p.permissions,
                             uid |-> p.uid, gid |-> p.gid]
          /\ secretPlanned' = Some(ValueString(p.value))
          /\ secretDiags' = <<>>
     ELSE /\ secretDiags' = <<SecretDiag("Unable to update secret")>>
          /\ UNCHANGED <<remoteSecret, secretState, secretPlanned>>
  /\ UNCHANGED secretData
  /\ UNCHANGED <<execVars, execPlan, fileVars, providerVars, vmVars>>

\* SecretResource.Delete; without an error the framework removes the state
SecretDelete(ok) ==
  /\ configured
  /\ secretState # NoState
  /\ secretOp' = "delete"
  /\ IF DeleteSecretError(ok) = NoErr
     THEN /\ remoteSecret' = None
          /\ secretState' = NoState
          /\ secretDiags' = <<>>
     ELSE /\ secretDiags' = <<SecretDiag("Unable to delete secret")>>
          /\ UNCHANGED <<remoteSecret, secretState>>
  /\ UNCHANGED <<secretPlanned, secretData>>
  /\ UNCHANGED <<execVars, execPlan, fileVars, providerVars, vmVars>>

\* someone else patches the secret on the remote: new data and new metadata
RemotePatchesSecret(data, permissions, uid) ==
  /\ remoteSecret # None
  /\ remoteSecret' =
       Some(RemoteSecretOf(remoteSecret[1].Name, data, permissions, uid,
                           remoteSecret[1].GID))
  /\ remoteSecret' # remoteSecret
  /\ UNCHANGED <<secretOp, secretState, secretDiags, secretPlanned, secretData>>
  /\ UNCHANGED <<execVars, execPlan, fileVars, providerVars, vmVars>>

\* the secret is deleted outside of Terraform
RemoteRemovesSecret ==
  /\ remoteSecret # None
  /\ remoteSecret' = None
  /\ UNCHANGED <<secretOp, secretState, secretDiags, secretPlanned, secretData>>
  /\ UNCHANGED <<execVars, execPlan, fileVars, providerVars, vmVars>>

\* a secret is created outside of Terraform
RemoteAddsSecret(name) ==
  /\ remoteSecret = None
  /\ remoteSecret' = Some(RemoteSecretOf(name, <<"v1">>, <<"0600">>, 0, 0))
  /\ UNCHANGED <<secretOp, secretState, secretDiags, secretPlanned, secretData>>
  /\ UNCHANGED <<execVars, execPlan, fileVars, providerVars, vmVars>>

\* SecretResource.ImportState: the ID is the name
SecretImportState(importID) ==
  /\ secretState = NoState
  /\ secretOp' = "import"
  /\ secretDiags' = <<>>
  /\ secretState' = [id |-> StringValue(importID),
                     name |-> StringValue(importID),
                     value |-> NullAttr, permissions |-> NullAttr,
                     uid |-> NullAttr, gid |-> NullAttr]
  /\ UNCHANGED <<remoteSecret, secretPlanned, secretData>>
  /\ UNCHANGED <<execVars, execPlan, fileVars, providerVars, vmVars>>

\* SecretDataSource.Read
SecretDataSourceRead(name, ok) ==
  /\ configured
  /\ secretOp' = "data source"
  /\ IF ~ok
     THEN /\ secretDiags' = <<SecretDiag("Unable to list secrets")>>
          /\ secretData' = NoState
     ELSE LET found == FindSecret(name)
          IN IF found = None
             THEN /\ secretDiags' = <<[summary |-> "Not Found",
                                       detail |-> "Secret not found"]>>
                  /\ secretData' = NoState
             ELSE /\ secretDiags' = <<>>
                  /\ secretData' = [name |-> StringValue(name),
                                    size |-> Int64Value(found[1].Size),
                                    permissions |->
                                      StringValue(found[1].Permissions),
                                    uid |-> Int64Value(found[1].UID),
                                    gid |-> Int64Value(found[1].GID)]
  /\ UNCHANGED <<secretState, remoteSecret, secretPlanned>>
  /\ UNCHANGED <<execVars, execPlan, fileVars, providerVars, vmVars>>

SecretIdle ==
  /\ secretOp = "none"
  /\ secretState = NoState
  /\ secretDiags = <<>>
  /\ remoteSecret = None
  /\ secretPlanned = None
  /\ secretData = NoState

\* ============================================ the exec resource's lifecycle
ExecPlans ==
  [command : {<<"c1">>, <<"c2">>},
   triggers : {NullAttr, MapValue({<<<<"rev">>, <<"1">>>>})}]

\* Terraform plans the exec resource anew: the handler that runs next is
\* given this plan
ExecPlanned(p) ==
  /\ execOp = "none"
  /\ p # execPlan
  /\ execPlan' = p
  /\ UNCHANGED <<execVars, fileVars, providerVars, vmVars, secretVars>>

\* ExecResource.Read: the state is written back as it was read
ExecRead ==
  /\ execOp = "none"
  /\ execState # NoState
  /\ execDiags' = <<>>
  /\ UNCHANGED <<configured, httpTimeout, execOp, prodPc, outChunk, seen,
                 execPc, stdoutBuilder, stderrBuilder, exitCode, ret,
                 ctxCancelled, cancelMark, age, framesLeft, execState>>
  /\ UNCHANGED outsideExec

\* ExecResource.Delete does nothing; the framework removes the state
ExecDelete ==
  /\ execOp = "none"
  /\ execState # NoState
  /\ execState' = NoState
  /\ execDiags' = <<>>
  /\ UNCHANGED <<configured, httpTimeout, execOp, prodPc, outChunk, seen,
                 execPc, stdoutBuilder, stderrBuilder, exitCode, ret,
                 ctxCancelled, cancelMark, age, framesLeft>>
  /\ UNCHANGED outsideExec

\* the frames of a command that prints and exits
LifecycleFrames ==
  {f \in RemoteFrames :
     f.stdout # <<"b">> /\ f.stderr = <<>> /\ f.error = <<>> /\ f.hasExit}

\* ================================================================ provider
ProviderConfigs ==
  [endpoint : {NullAttr, StringValue(<<>>), StringValue(<<"https://slicer">>)},
   token : {NullAttr, StringValue(<<>>), StringValue(<<"token">>)},
   timeout : TimeoutAttrs,
   insecure : {NullAttr, BoolValue(FALSE), BoolValue(TRUE)}]

Envs ==
  [SLICER_ENDPOINT : {<<>>, <<"https://env">>},
   SLICER_TOKEN : {<<>>, <<"env-token">>}]

NoEnv == [SLICER_ENDPOINT |-> <<>>, SLICER_TOKEN |-> <<>>]

ProviderIdle ==
  /\ providerReq = None
  /\ providerDiags = <<>>
  /\ client = None
  /\ resourceClient = None

FileIdle ==
  /\ fileOp = "none"
  /\ filePc = "idle"
  /\ plan = [content |-> NullAttr, source |-> NullAttr]
  /\ content = None
  /\ contentHash = None
  /\ tmpFile = None
  /\ staged = "none"
  /\ sent = None
  /\ remoteCalls = 0
  /\ cpResult = "none"
  /\ fileErr = NoErr
  /\ fileState = NoState
  /\ fileDiags = <<>>
  /\ fsWrites = 0
  /\ fileOps = 0

\* what the source file may hold
SourceFiles == {None} \cup {Some(x) : x \in BytesUpTo(MaxBytes)}

\* everything but the exec and the file resource, before anything has run
RestIdle == environ = NoEnv /\ ProviderIdle /\ VMIdle /\ SecretIdle

Init == ExecInit /\ FileIdle /\ fs = None /\ RestIdle

\* the provider about to be configured, in any environment
ProviderInit ==
  /\ ExecInit /\ FileIdle /\ fs = None /\ VMIdle /\ SecretIdle
  /\ ProviderIdle
  /\ environ \in Envs

FileInit == ExecInit /\ FileIdle /\ fs \in SourceFiles /\ RestIdle

ExecNext ==
  \/ \E t \in TimeoutAttrs : Configure(ProviderConfig(t))
  \/ \E op \in {"create", "update"} : ExecOpen(op)
  \/ \E op \in {"create", "update"} : ExecOpenFails(op)
  \/ \E f \in RemoteFrames : RemoteFrame(f)
  \/ RemoteEOF
  \/ StreamFails
  \/ ProducerCloses
  \/ ReceiveOutput
  \/ ReceiveError
  \/ ReceiveClosed

\* exec sessions: no clock, no cancellation
ExecSpec == Init /\ [][ExecNext]_vars

\* exec sessions with the clock running against the client timeout
ExecTimedNext == ExecNext \/ Tick

ExecTimedSpec == Init /\ [][ExecTimedNext]_vars

\* exec sessions whose context the caller may cancel; the producer and the
\* consumer are goroutines the scheduler keeps running
ExecCancelNext == ExecNext \/ Cancel \/ ProducerCancelled

ExecCancelSpec ==
  /\ Init
  /\ [][ExecCancelNext]_vars
  /\ WF_vars(ProducerCancelled)
  /\ WF_vars(ProducerCloses)
  /\ WF_vars(ReceiveOutput)
  /\ WF_vars(ReceiveError)
  /\ WF_vars(ReceiveClosed)

FileNext ==
  \/ Configure(DefaultProviderConfig)
  \/ \E p \in Plans : FileCreateRejected(p)
  \/ \E op \in {"create", "update"}, p \in Plans : FileStart(op, p)
  \/ FileRead
  \/ FileHash
  \/ \E ok \in BOOLEAN : FileStage(ok)
  \/ \E outcome \in CpOutcomes : FileSend(outcome)
  \/ \E b \in SourceFiles : FsWrite(b)

\* file transfers
FileSpec == FileInit /\ [][FileNext]_vars

\* the provider's configuration
ProviderNext ==
  \/ \E data \in ProviderConfigs : Configure(data)
  \/ ResourceConfigure

ProviderSpec == ProviderInit /\ [][ProviderNext]_vars

\* the vm resource and the vm data sources against one remote VM
VMNext ==
  \/ Configure(DefaultProviderConfig)
  \/ \E p \in VMPlans, ok \in BOOLEAN, ip \in RemoteIPs : VMCreate(p, ok, ip)
  \/ \E ok \in BOOLEAN : VMRead(ok)
  \/ \E p \in VMUpdatePlans : VMUpdate(p)
  \/ \E ok \in BOOLEAN : VMDelete(ok)
  \/ RemoteRemovesVM
  \/ \E h \in {<<"vm-1">>, <<"vm-2">>}, ok \in BOOLEAN : VMDataSourceRead(h, ok)
  \/ \E f \in VMFilters, ok \in BOOLEAN : VMsDataSourceRead(f, ok)

VMSpec == Init /\ [][VMNext]_vars

\* keys and values of tags maps: a key may be empty or hold a '=', a value
\* may be empty or hold a '='
TagKeys == {<<"k">>, <<>>, <<"k", "=", "j">>}
TagValues == {<<"v">>, <<"a", "=", "b">>, <<>>}

\* the maps of at most MaxTags entries, as sets of <<key, value>> pairs
EncodedTagMaps ==
  {m \in SUBSET (TagKeys \X TagValues) :
     /\ Cardinality(m) <= MaxTags
     /\ \A e1 \in m, e2 \in m : e1[1] = e2[1] => e1 = e2}

\* a plan that sets nothing but the tags
TagPlans ==
  {[host_group |-> StringValue(<<"w1-medium">>),
    cpus |-> Int64Value(0),
    ram_gb |-> Int64Value(0),
    persistent |-> BoolValue(FALSE),
    disk_image |-> NullAttr,
    import_user |-> NullAttr,
    ssh_keys |-> NullAttr,
    userdata |-> NullAttr,
    tags |-> MapValue(m),
    secrets |-> NullAttr] : m \in EncodedTagMaps}

\* a VM created with tags and read back
VMTagsNext ==
  \/ Configure(DefaultProviderConfig)
  \/ \E p \in TagPlans, ok \in BOOLEAN : VMCreate(p, ok, <<"10.0.0.5">>)
  \/ \E ok \in BOOLEAN : VMRead(ok)

VMTagsSpec == Init /\ [][VMTagsNext]_vars

\* the vms data source against a remote listing of several VMs
VMsListingInit ==
  /\ ExecInit /\ FileIdle /\ fs = None
  /\ environ = NoEnv /\ ProviderIdle /\ SecretIdle
  /\ vmOp = "none"
  /\ vmState = NoState
  /\ vmDiags = <<>>
  /\ remoteVM \in Listings
  /\ vmReq = None
  /\ vmRequests = <<>>
  /\ vmExposed = None
  /\ vmData = NoState

VMsListingNext ==
  \/ Configure(DefaultProviderConfig)
  \/ \E f \in ListingFilters, ok \in BOOLEAN : VMsDataSourceRead(f, ok)

VMsListingSpec == VMsListingInit /\ [][VMsListingNext]_vars

\* the secret resource and the secret data source against one remote secret
SecretNext ==
  \/ Configure(DefaultProviderConfig)
  \/ \E p \in SecretPlans, ok \in BOOLEAN : SecretCreate(p, ok)
  \/ \E ok \in BOOLEAN : SecretRead(ok)
  \/ \E p \in SecretPlans, ok \in BOOLEAN : SecretUpdate(p, ok)
  \/ \E ok \in BOOLEAN : SecretDelete(ok)
  \/ \E d \in SecretValues \cup {<<"v3">>}, q \in SecretPermissions,
        u \in SecretUIDs : RemotePatchesSecret(d, q, u)
  \/ RemoteRemovesSecret
  \/ \E ok \in BOOLEAN : SecretDataSourceRead(<<"db-password">>, ok)

SecretSpec == Init /\ [][SecretNext]_vars

\* the exec resource through plans, Create, Update, Read and Delete
ExecLifecycleNext ==
  \/ Configure(DefaultProviderConfig)
  \/ \E p \in ExecPlans : ExecPlanned(p)
  \/ \E op \in {"create", "update"} : ExecOpen(op)
  \/ \E op \in {"create", "update"} : ExecOpenFails(op)
  \/ \E f \in LifecycleFrames : RemoteFrame(f)
  \/ RemoteEOF
  \/ ReceiveOutput
  \/ ReceiveClosed
  \/ ExecRead
  \/ ExecDelete

ExecLifecycleSpec == Init /\ [][ExecLifecycleNext]_vars

\* Create of each of the four resources, with a remote that may refuse
CreateFrames ==
  {f \in RemoteFrames :
     f.stdout = <<"a">> /\ f.stderr = <<>> /\ f.hasExit /\ f.exit = 2}

CreateVMPlans ==
  {p \in VMPlans :
     /\ p.tags.null /\ p.import_user.null /\ p.disk_image.null
     /\ p.cpus = Int64Value(2) /\ p.ram_gb = Int64Value(1)}

CreateSecretPlans ==
  {p \in SecretPlans :
     /\ p.value = StringValue(<<"v1">>)
     /\ p.permissions = StringValue(<<"0600">>)
     /\ p.uid = Int64Value(0)}

CreateFilePlans ==
  {p \in Plans : p.content = StringValue(<<"a">>) /\ p.source.null}

CreatesNext ==
  \/ Configure(DefaultProviderConfig)
  \/ \E p \in CreateVMPlans, ok \in BOOLEAN : VMCreate(p, ok, <<"10.0.0.5">>)
  \/ \E p \in CreateSecretPlans, ok \in BOOLEAN : SecretCreate(p, ok)
  \/ ExecOpen("create")
  \/ ExecOpenFails("create")
  \/ \E f \in CreateFrames : RemoteFrame(f)
  \/ RemoteEOF
  \/ ReceiveOutput
  \/ ReceiveError
  \/ ReceiveClosed
  \/ \E p \in CreateFilePlans : FileStart("create", p)
  \/ FileRead
  \/ FileHash
  \/ \E ok \in BOOLEAN : FileStage(ok)
  \/ \E outcome \in CpOutcomes : FileSend(outcome)

CreatesSpec == Init /\ [][CreatesNext]_vars

\* Read of the vm and the secret resource, against a remote on which VMs
\* and secrets also come and go outside of Terraform
ImportedVMs == {vm \in ListedVMs : Len(vm.Tags) <= 1}
SecretNames == {<<"db-password">>, <<"api-key">>}

ReadsNext ==
  \/ Configure(DefaultProviderConfig)
  \/ \E p \in CreateVMPlans, ok \in BOOLEAN : VMCreate(p, ok, <<"10.0.0.5">>)
  \/ \E importID \in ImportIDs : VMImportState(importID)
  \/ \E ok \in BOOLEAN : VMRead(ok)
  \/ \E vm \in ImportedVMs : RemoteAddsVM(vm)
  \/ RemoteRemovesVM
  \/ \E p \in CreateSecretPlans, ok \in BOOLEAN : SecretCreate(p, ok)
  \/ \E name \in SecretNames : SecretImportState(name)
  \/ \E ok \in BOOLEAN : SecretRead(ok)
  \/ RemoteAddsSecret(<<"db-password">>)
  \/ RemoteRemovesSecret

ReadsSpec == Init /\ [][ReadsNext]_vars

\* the vm resource through Create, ImportState, Read and Update, against a
\* remote whose record of the VM changes outside of Terraform
DriftPlans ==
  {p \in VMPlans :
     /\ p.import_user.null /\ p.disk_image.null
     /\ p.cpus = Int64Value(2) /\ p.ram_gb = Int64Value(1)}

DriftTags == {<<>>, <<<<"z", "=", "w">>>>}

VMDriftNext ==
  \/ Configure(DefaultProviderConfig)
  \/ \E p \in DriftPlans, ok \in BOOLEAN : VMCreate(p, ok, <<"10.0.0.5">>)
  \/ \E importID \in ImportIDs : VMImportState(importID)
  \/ \E ok \in BOOLEAN : VMRead(ok)
  \/ \E p \in VMUpdatePlans : VMUpdate(p)
  \/ \E vm \in ImportedVMs : RemoteAddsVM(vm)
  \/ \E cpus \in {0, 1}, ramBytes \in {0, GiB(1)}, tags \in DriftTags :
       RemoteChangesVM(cpus, ramBytes, tags)
  \/ RemoteRemovesVM

VMDriftSpec == Init /\ [][VMDriftNext]_vars

\* files created, updated and deleted again
DeletedFilePlans == {p \in Plans : p.content.null # p.source.null}

FileDeleteNext ==
  \/ Configure(DefaultProviderConfig)
  \/ \E op \in {"create", "update"}, p \in DeletedFilePlans : FileStart(op, p)
  \/ FileRead
  \/ FileHash
  \/ \E ok \in BOOLEAN : FileStage(ok)
  \/ \E outcome \in CpOutcomes : FileSend(outcome)
  \/ \E outcome \in DeleteOutcomes : FileDelete(outcome)

FileDeleteSpec == FileInit /\ [][FileDeleteNext]_vars

\* ==================================================================== claims
Returned == execPc = "returned"

\* C1: when no chunk of the stream carried an error, the stdout returned is
\* the concatenation of the stdout fragments of all chunks in arrival order,
\* and the stderr returned is the concatenation of the stderr fragments,
\* however the remote cut the output into chunks.
C1_OutputIsConcatenation ==
  (Returned /\ seen.failed = NoRet)
    => (ret.stdout = seen.stdout /\ ret.stderr = seen.stderr)

C1_Witness ==
  /\ Returned
  /\ seen.failed = NoRet
  /\ seen.n = 2
  /\ ret.stdout = <<"a", "b">>
  /\ ret.stderr = <<"x">>

\* C2: a session that completes reports the exit code of the last chunk
\* that set one; a later chunk that sets none does not reset it.
C2_LastSetExitCodeIsReported ==
  (Returned /\ ret.err = NoErr /\ seen.lastExit # None)
    => ret.exitCode = seen.lastExit[1]

\* C3: a stream that ends without any chunk carrying an exit code is not
\* reported as a completion without error.
C3_NoSilentTruncation ==
  (Returned /\ seen.n > 0 /\ seen.lastExit = None) => ret.err # NoErr

\* C4: the consumer stops reading only once the producer has nothing left
\* to deliver, also after a chunk that carried an error.
C4_ConsumerDrainsTheChannel ==
  (Returned /\ seen.n > 0) => prodPc \in {"closing", "closed"}

\* C5: when a chunk carries an error, executeCommand returns an error whose
\* message contains the carried string, with the stdout and stderr of the
\* chunks received before that chunk.
C5_FailedReturnsErrorAndPartialOutput ==
  (Returned /\ seen.failed # NoRet)
    => /\ ret.err # NoErr
       /\ Contains(ret.err, seen.failed.error)
       /\ ret.stdout = seen.failed.stdout
       /\ ret.stderr = seen.failed.stderr

C5_Witness ==
  /\ Returned
  /\ seen.failed # NoRet
  /\ seen.failed.cause = "frame"
  /\ seen.n = 2
  /\ ret.stdout = <<"a">>
  /\ ret.stderr = <<"x">>
  /\ ret.err = <<"exec error: ", "e">>

\* C6: when Create or Update fails mid-stream, the stdout and stderr
\* collected before the failure reach the user, in the diagnostic or in the
\* recorded attributes.
C6_PartialOutputIsSurfaced ==
  (Returned /\ seen.failed # NoRet /\ execDiags # <<>>)
    => \/ /\ Contains(execDiags[1].detail, seen.failed.stdout)
          /\ Contains(execDiags[1].detail, seen.failed.stderr)
       \/ /\ execState # NoState
          /\ execState.stdout = seen.failed.stdout
          /\ execState.stderr = seen.failed.stderr

IsCancellation(err) == Contains(err, <<FailureMessage("cancel")>>)

\* C8: once the context of a handler that is reading the stream is
\* cancelled, the handler returns; if it was cancelled mid-stream (the
\* engine was still streaming) it returns a cancellation error, and the
\* output consumed before the cancellation is a prefix of the output it
\* returns with.
C8_CancelledExecReturns ==
  /\ (ctxCancelled /\ execPc = "reading") ~> Returned
  /\ [](Returned /\ ctxCancelled /\ cancelMark.streaming
         => /\ IsCancellation(ret.err)
            /\ IsPrefix(cancelMark.stdout, ret.stdout)
            /\ IsPrefix(cancelMark.stderr, ret.stderr))

C8_Witness ==
  /\ Returned
  /\ ctxCancelled
  /\ cancelMark.streaming
  /\ cancelMark.stdout = <<"a">>
  /\ ret.stdout = <<"a", "b">>
  /\ IsCancellation(ret.err)

Transferred == filePc = "done" /\ fileErr = NoErr /\ sent # None

\* C9: after a successful transfer the recorded content_hash is the hex
\* SHA-256 digest of exactly the bytes the VM received, for a payload from
\* the content attribute and for one read from the source file.
C9_HashIsDigestOfBytesSent ==
  Transferred => fileState.content_hash = Hex(Sha256(sent[1]))

C9_Witness ==
  /\ Transferred
  /\ plan.content.null
  /\ sent = Some(<<97, 0>>)
  /\ fs # sent
  /\ fileState.content_hash = Hex(Sha256(<<97, 0>>))

\* C10: the first request to the remote is issued only after the payload is
\* materialized, its digest computed and the temp file staged with the
\* payload; when reading the source or staging fails, no request is made.
C10_DigestBeforeAnyRequest ==
  /\ (filePc = "send" \/ remoteCalls > 0)
       => (content # None /\ contentHash # None /\ staged = "ok")
  /\ filePc = "send" => (tmpFile = content /\ remoteCalls = 0)
  /\ (filePc = "done" /\ (content = None \/ staged = "failed"))
       => (remoteCalls = 0 /\ sent = None)

C10_Witness ==
  /\ filePc = "done"
  /\ staged = "failed"
  /\ fileErr # NoErr
  /\ content = Some(<<195, 169>>)
  /\ contentHash # None
  /\ remoteCalls = 0

\* C11: a transfer whose remote copy step reports a failure, of the byte
\* upload or of applying owner and permissions, is never reported as
\* success: copyFile returns an error and no digest, the handler raises an
\* error diagnostic, Create records no resource and Update leaves the
\* recorded state, content_hash included, as it was.
C11_FailedCopyIsNeverSuccess ==
  [][(filePc = "send" /\ cpResult' \in {"upload failed", "permissions failed"})
       => /\ fileErr' # NoErr
          /\ CopyFileReturn(CpToVMError(cpResult'), contentHash[1]).hash = <<>>
          /\ fileDiags' # <<>>
          /\ fileState' = fileState
          /\ fileOp = "create" => fileState' = NoState]_vars

C11_Witness ==
  /\ filePc = "done"
  /\ cpResult = "permissions failed"
  /\ sent # None
  /\ fileErr # NoErr
  /\ fileDiags # <<>>
  /\ fileState # NoState
  /\ fileState.content_hash # contentHash[1]

\* C12: in every create request built from a plan an optional field is set
\* only from a planned value that is set and, for cpus and ram_gb, positive:
\* a planned cpus or ram_gb of 0 or below is never sent, and a null
\* disk_image, import_user, ssh_keys, userdata, tags or secrets leaves the
\* field at its zero value, so that the host group's default applies.
C12_OnlySetFieldsAreSent ==
  vmReq # None =>
    LET p == vmReq[1].plan
        q == vmReq[1].req
    IN /\ q.CPUs # 0 <=> (~p.cpus.null /\ p.cpus.value > 0)
       /\ q.CPUs # 0 => q.CPUs = p.cpus.value
       /\ q.RamBytes # 0 <=> (~p.ram_gb.null /\ p.ram_gb.value > 0)
       /\ q.RamBytes # 0 => q.RamBytes = p.ram_gb.value * BytesPerGiB
       /\ q.DiskImage = (IF p.disk_image.null THEN <<>> ELSE p.disk_image.value)
       /\ q.ImportUser = (IF p.import_user.null THEN <<>> ELSE p.import_user.value)
       /\ q.SSHKeys = (IF p.ssh_keys.null THEN <<>> ELSE p.ssh_keys.value)
       /\ q.Userdata = (IF p.userdata.null THEN <<>> ELSE p.userdata.value)
       /\ q.Secrets = (IF p.secrets.null THEN <<>> ELSE p.secrets.value)
       /\ p.tags.null => q.Tags = <<>>
       /\ ~p.tags.null => q.Tags \in TagStrings(p.tags.value)

C12_Witness ==
  /\ vmOp = "create"
  /\ vmDiags = <<>>
  /\ vmReq # None
  /\ vmReq[1].plan.cpus = Int64Value(0)
  /\ vmReq[1].plan.ram_gb = Int64Value(-1)
  /\ vmReq[1].plan.disk_image.null
  /\ vmReq[1].plan.tags.null
  /\ vmReq[1].req.CPUs = 0
  /\ vmReq[1].req.RamBytes = 0
  /\ vmReq[1].req.DiskImage = <<>>
  /\ remoteVM # None
  /\ remoteVM[1].CPUs = HostGroupCPUs

\* C13: Delete of a VM that the remote no longer has, so that the remote
\* answers "not found", is a success: no error diagnostic is raised and the
\* resource leaves the state.
C13_DeleteOfAbsentVMSucceeds ==
  [][(remoteVM = None /\ \E ok \in BOOLEAN : VMDelete(ok))
       => (vmDiags' = <<>> /\ vmState' = NoState)]_vars

\* C14: Update issues no request to the remote and leaves the remote VM as
\* it was; of the handlers only Create and Delete change the remote VM.
C14_UpdateIssuesNoRequest ==
  [][/\ (\E p \in VMUpdatePlans : VMUpdate(p))
          => (vmRequests' = <<>> /\ remoteVM' = remoteVM)
     /\ (\/ \E ok \in BOOLEAN : VMRead(ok)
         \/ \E h \in {<<"vm-1">>, <<"vm-2">>}, ok \in BOOLEAN :
              VMDataSourceRead(h, ok)
         \/ \E f \in VMFilters, ok \in BOOLEAN : VMsDataSourceRead(f, ok))
          => remoteVM' = remoteVM]_vars

C14_Witness ==
  /\ vmOp = "update"
  /\ vmRequests = <<>>
  /\ vmDiags = <<>>
  /\ remoteVM # None
  /\ remoteVM[1].CPUs = HostGroupCPUs
  /\ vmState.cpus = Int64Value(2)

\* C15: an Update whose plan differs from the state in cpus, ram_gb or tags,
\* which the remote cannot change in place, raises an error and leaves the
\* state as it was: the planned values are never recorded while the remote
\* VM keeps the old ones.
C15_UpdateOfFixedAttributeFails ==
  [][\A p \in VMUpdatePlans :
       (/\ VMUpdate(p)
        /\ \/ p.cpus # vmState.cpus
           \/ p.ram_gb # vmState.ram_gb
           \/ p.tags # vmState.tags)
         => (vmDiags' # <<>> /\ vmState' = vmState)]_vars

\* C16: the ip that Create, Read and the vm and vms data sources expose
\* holds no '/', and is the remote's IP string up to its first '/': the
\* whole string when that has no '/'.
C16_ExposedIPHasNoCIDRSuffix ==
  vmExposed # None =>
    LET e == vmExposed[1]
    IN /\ ~Contains(e.ip, <<"/">>)
       /\ e.ip = e.remote \/ IsPrefix(e.ip \o <<"/">>, e.remote)
       /\ ~Contains(e.remote, <<"/">>) => e.ip = e.remote

C16_Witness ==
  /\ vmOp = "read"
  /\ vmExposed # None
  /\ vmExposed[1].by = "read"
  /\ vmExposed[1].remote = <<"10.0.0.5", "/", "24", "/", "8">>
  /\ vmExposed[1].ip = <<"10.0.0.5">>
  /\ vmState.ip = StringValue(<<"10.0.0.5">>)

\* C17: the secret value is write-only. Whenever the secret is in state its
\* value is the value of the last plan a Create or Update applied, whatever
\* the remote holds; a Read that keeps the resource leaves id, name and
\* value as they were; and the data source returns name, size, permissions,
\* uid and gid and nothing else.
C17_SecretValueIsWriteOnly ==
  /\ [](secretState # NoState
          => /\ secretPlanned # None
             /\ ValueString(secretState.value) = secretPlanned[1])
  /\ [](secretData # NoState
          => DOMAIN secretData = {"name", "size", "permissions", "uid", "gid"})
  /\ [][((\E ok \in BOOLEAN : SecretRead(ok)) /\ secretState' # NoState)
          => /\ secretState'.id = secretState.id
             /\ secretState'.name = secretState.name
             /\ secretState'.value = secretState.value]_vars

C17_Witness ==
  /\ secretOp = "read"
  /\ secretDiags = <<>>
  /\ secretState # NoState
  /\ remoteSecret # None
  /\ remoteSecret[1].Data = <<"v3">>
  /\ remoteSecret[1].Permissions = <<"0644">>
  /\ secretPlanned = Some(<<"v2">>)
  /\ secretState.value = StringValue(<<"v2">>)
  /\ secretState.permissions = StringValue(<<"0644">>)
  /\ secretState.uid = Int64Value(1000)

\* C18: the HTTP client that Configure builds skips certificate
\* verification exactly when the insecure attribute is set to true; with
\* insecure null or false certificates are verified.
C18_VerificationOnByDefault ==
  client # None
    => (client[1].insecureSkipVerify <=> providerReq[1].insecure = BoolValue(TRUE))

C18_Witness ==
  /\ client # None
  /\ providerReq[1].insecure = NullAttr
  /\ ~client[1].insecureSkipVerify
  /\ resourceClient = client

\* C19: Configure takes endpoint and token from SLICER_ENDPOINT and
\* SLICER_TOKEN unless the attribute is set, which then wins; when the
\* endpoint or the token it arrives at is empty, or the timeout does not
\* parse, it reports an error and no client reaches a resource or data
\* source; otherwise the client carries that endpoint and token, and a
\* timeout of 30 seconds when none is configured.
C19_ConfigureResolvesOrFails ==
  providerReq # None =>
    LET data == providerReq[1]
        endpoint == IF data.endpoint.null THEN environ.SLICER_ENDPOINT
                    ELSE data.endpoint.value
        token == IF data.token.null THEN environ.SLICER_TOKEN
                 ELSE data.token.value
        unparsed == ~data.timeout.null /\ ParseDuration(data.timeout.value) < 0
    IN IF endpoint = <<>> \/ token = <<>> \/ unparsed
       THEN /\ providerDiags # <<>>
            /\ client = None
            /\ resourceClient = None
            /\ ~configured
       ELSE /\ providerDiags = <<>>
            /\ client # None
            /\ client[1].endpoint = endpoint
            /\ client[1].token = token
            /\ data.timeout.null => client[1].timeout = 30
            /\ resourceClient \in {None, client}

C19_Witness ==
  /\ providerReq # None
  /\ environ.SLICER_ENDPOINT = <<"https://env">>
  /\ environ.SLICER_TOKEN = <<"env-token">>
  /\ providerReq[1].endpoint = StringValue(<<"https://slicer">>)
  /\ providerReq[1].token = NullAttr
  /\ providerReq[1].timeout = NullAttr
  /\ client # None
  /\ client[1].endpoint = <<"https://slicer">>
  /\ client[1].token = <<"env-token">>
  /\ client[1].timeout = 30
  /\ resourceClient = client

\* C20: the command is run by Create and by an Update whose plan changes
\* the triggers, and by nothing else: an Update that Terraform calls for
\* another change (here, of the command) with the triggers as recorded opens
\* no exec session, and Read and Delete never open one.
C20_CommandRunsOnlyOnTriggerChange ==
  [][/\ (/\ execOp = "none"
          /\ execOp' = "update"
          /\ execPlan.command # execState.command)
          => execPlan.triggers # execState.triggers
     /\ (ExecRead \/ ExecDelete)
          => (execOp' = "none" /\ prodPc' = prodPc /\ execPc' = execPc)]_vars

\* C21: content and source conflict. In Create and in Update a transfer is
\* attempted only when exactly one of the two is set: with both set, or
\* with neither, no request reaches the VM and the handler ends with an
\* error diagnostic.
C21_TransferNeedsExactlyOneOfContentAndSource ==
  (fileOps > 0 /\ plan.content.null = plan.source.null)
    => /\ remoteCalls = 0
       /\ sent = None
       /\ filePc = "done" => fileDiags # <<>>

\* C22: the vms data source returns, in the order of the remote listing,
\* exactly the VMs for which every filter block with a non-null tag is
\* contained in at least one of the VM's tag strings; without filter blocks
\* it returns every VM; total_count is the number of VMs returned.
C22_VMsAreTheMatchingOnesInListingOrder ==
  (vmOp = "vms data source" /\ vmDiags = <<>>) =>
    LET filter == vmData.filter
        Matched(vm) ==
          \A i \in 1..Len(filter) :
            ~filter[i].tag.null =>
              \E j \in 1..Len(vm.Tags) :
                Contains(vm.Tags[j], ValueString(filter[i].tag))
        matching == SelectSeq(remoteVM, Matched)
    IN /\ Len(vmData.vms) = Len(matching)
       /\ \A i \in 1..Len(matching) : vmData.vms[i] = VMModel(matching[i])
       /\ filter = <<>> => Len(vmData.vms) = Len(remoteVM)
       /\ vmData.total_count = Int64Value(Len(vmData.vms))

\* a listing of two VMs of which only the second is returned, for a filter
\* that is a proper substring of one of its tags
C22_Witness ==
  /\ vmOp = "vms data source" /\ vmDiags = <<>>
  /\ Len(remoteVM) = 2
  /\ Len(vmData.vms) = 1
  /\ vmData.vms[1] = VMModel(remoteVM[2])
  /\ remoteVM[1] # remoteVM[2]
  /\ \E i \in 1..Len(vmData.filter) :
       /\ ~vmData.filter[i].tag.null
       /\ \A j \in 1..Len(remoteVM[2].Tags) :
            remoteVM[2].Tags[j] # ValueString(vmData.filter[i].tag)

\* C23: tag encoding round-trips. For a tags map whose keys hold no '='
\* (its values may), a Read that finds the VM created from the map records
\* the map that was planned, whatever the order of the encoded strings.
C23_TagsRoundTrip ==
  [][((\E ok \in BOOLEAN : VMRead(ok))
      /\ vmDiags' = <<>>
      /\ vmState' # NoState
      /\ \A e \in vmState.tags.value : ~Contains(e[1], <<"=">>))
     => vmState'.tags = vmState.tags]_vars

\* a map of two entries, one with a '=' in its value, read back from a
\* listing that holds the entry with the '=' in second place
C23_Witness ==
  /\ vmOp = "read" /\ vmDiags = <<>> /\ vmState # NoState
  /\ Cardinality(vmState.tags.value) = 2
  /\ \A e \in vmState.tags.value : ~Contains(e[1], <<"=">>)
  /\ \E e \in vmState.tags.value :
       /\ Contains(e[2], <<"=">>)
       /\ remoteVM[1].Tags[2] = EncodeTag(e)

\* C24: the stdout and stderr fragments carried on the chunk that carries
\* the error are part of the partial output: what executeCommand returns
\* with the error ends with them.
C24_ErrorChunkFragmentsAreReturned ==
  (Returned /\ seen.failed # NoRet)
    => /\ ret.stdout = seen.failed.stdout \o seen.failed.chunk.Stdout
       /\ ret.stderr = seen.failed.stderr \o seen.failed.chunk.Stderr

\* C25: a failed Create records nothing. When the remote call of the vm,
\* the secret or the file Create returns an error, or the exec Create
\* cannot open the stream or reads a chunk that carries an error, the
\* handler ends with an error diagnostic and the resource has no state.
C25_FailedCreateRecordsNothing ==
  [][/\ (\E p \in CreateVMPlans : VMCreate(p, FALSE, <<"10.0.0.5">>))
          => (vmDiags' # <<>> /\ vmState' = NoState)
     /\ (\E p \in CreateSecretPlans : SecretCreate(p, FALSE))
          => (secretDiags' # <<>> /\ secretState' = NoState)
     /\ (ExecOpenFails("create") \/ (execOp = "create" /\ ReceiveError))
          => (execDiags' # <<>> /\ execState' = NoState)
     /\ (fileOp = "create"
         /\ \E outcome \in CpOutcomes \ {"ok"} : FileSend(outcome))
          => (fileDiags' # <<>> /\ fileState' = NoState)]_vars

\* all four creates have failed on the remote's answer
C25_Witness ==
  /\ vmOp = "create" /\ vmDiags # <<>> /\ vmState = NoState
  /\ secretOp = "create" /\ secretDiags # <<>> /\ secretState = NoState
  /\ Returned /\ seen.failed # NoRet /\ execDiags # <<>>
  /\ execState = NoState
  /\ filePc = "done" /\ cpResult = "upload failed" /\ fileDiags # <<>>
  /\ fileState = NoState

\* C26: Read of a vm (of a secret) removes the resource from the state
\* exactly when the listing succeeded and holds no entry with the recorded
\* hostname (name). When the listing fails, Read reports an error and the
\* state is unchanged; when the entry is found the resource stays, with id,
\* hostname (name) and host_group unchanged.
C26_ReadRemovesExactlyTheUnlisted ==
  [][/\ \A ok \in BOOLEAN :
          VMRead(ok) =>
            LET listed == \E i \in 1..Len(remoteVM) :
                            remoteVM[i].Hostname = ValueString(vmState.hostname)
            IN /\ vmState' = NoState <=> (ok /\ ~listed)
               /\ ~ok => (vmDiags' # <<>> /\ vmState' = vmState)
               /\ (ok /\ listed) =>
                    /\ vmState'.id = vmState.id
                    /\ vmState'.hostname = vmState.hostname
                    /\ vmState'.host_group = vmState.host_group
     /\ \A ok \in BOOLEAN :
          SecretRead(ok) =>
            LET listed == \E i \in 1..Len(remoteSecret) :
                            remoteSecret[i].Name = ValueString(secretState.name)
            IN /\ secretState' = NoState <=> (ok /\ ~listed)
               /\ ~ok => (secretDiags' # <<>> /\ secretState' = secretState)
               /\ (ok /\ listed) =>
                    /\ secretState'.id = secretState.id
                    /\ secretState'.name = secretState.name]_vars

\* a Read has removed an imported VM whose hostname the non-empty listing
\* does not hold, and a Read has kept a secret the listing holds
C26_Witness ==
  /\ vmOp = "read" /\ vmDiags = <<>> /\ vmState = NoState
  /\ remoteVM # None
  /\ secretOp = "read" /\ secretDiags = <<>> /\ secretState # NoState
  /\ remoteSecret # None

\* C27: in every state recorded for a vm resource by Create, ImportState,
\* Read and Update, id equals hostname; the value Create records is the
\* hostname the remote returned, and the create request has no hostname
\* field.
C27_IdIsTheRemoteHostname ==
  /\ [](vmState # NoState => vmState.id = vmState.hostname)
  /\ [][(\E p \in DriftPlans : VMCreate(p, TRUE, <<"10.0.0.5">>))
          => /\ vmState'.id = StringValue(remoteVM'[1].Hostname)
             /\ "Hostname" \notin DOMAIN vmReq'[1].req]_vars

\* an imported VM has been read from the listing and then updated
C27_Witness ==
  /\ vmOp = "update"
  /\ vmState # NoState
  /\ vmState.host_group = StringValue(<<"w1-medium">>)
  /\ vmState.hostname = StringValue(<<"vm-2">>)
  /\ ~vmState.arch.null
  /\ vmState.persistent.null

\* C28: Read overwrites cpus, ram_gb and tags only when the found record
\* reports a positive CPU count, a positive RAM size, a non-empty tag list;
\* otherwise the state keeps its value, so once the tags are removed on the
\* remote every Read still records the old tags.
C28_ReadKeepsWhatTheRemoteDoesNotReport ==
  [][(VMRead(TRUE) /\ vmState' # NoState) =>
       LET found == FindVM(ValueString(vmState.hostname))[1]
       IN /\ vmState'.cpus = IF found.CPUs > 0 THEN Int64Value(found.CPUs)
                             ELSE vmState.cpus
          /\ vmState'.ram_gb = IF found.RamBytes > 0
                               THEN Int64Value(found.RamBytes \div BytesPerGiB)
                               ELSE vmState.ram_gb
          /\ vmState'.tags = IF found.Tags # <<>>
                             THEN MapValue(ParseTags(found.Tags, {}))
                             ELSE vmState.tags]_vars

\* a VM created with a tag, whose tags were removed on the remote and whose
\* record reports no CPU count and no RAM size, has been read: the state
\* still holds the tag, the cpus and the ram_gb of the plan
C28_Witness ==
  /\ vmOp = "read" /\ vmDiags = <<>> /\ vmState # NoState
  /\ remoteVM # None
  /\ remoteVM[1].Hostname = ValueString(vmState.hostname)
  /\ remoteVM[1].Tags = <<>>
  /\ remoteVM[1].CPUs = 0
  /\ remoteVM[1].RamBytes = 0
  /\ vmState.tags = MapValue({<<<<"k">>, <<"v">>>>})
  /\ vmState.cpus = Int64Value(2)
  /\ vmState.ram_gb = Int64Value(1)

\* C29: a command that exits non-zero without any chunk carrying an error
\* is recorded as a successful exec. When the stream was opened and no chunk
\* carried an error, Create and Update raise no diagnostic and store the
\* exit code, stdout and stderr; the handler fails only when opening the
\* stream failed or a chunk carried an error.
C29_NonZeroExitIsRecordedAsSuccess ==
  Returned =>
    /\ (prodPc # "idle" /\ seen.failed = NoRet)
         => /\ execDiags = <<>>
            /\ execState # NoState
            /\ execState.exit_code = ret.exitCode
            /\ execState.stdout = ret.stdout
            /\ execState.stderr = ret.stderr
    /\ execDiags # <<>> => (prodPc = "idle" \/ seen.failed # NoRet)

\* a stream whose only chunk carries output and the exit code 2, recorded
C29_Witness ==
  /\ Returned
  /\ seen.failed = NoRet
  /\ seen.n = 1
  /\ seen.lastExit = Some(2)
  /\ execDiags = <<>>
  /\ execState # NoState
  /\ execState.exit_code = 2
  /\ execState.stdout = <<"a">>

\* C30: FileResource.Delete never raises an error diagnostic. Whether the
\* exec of rm -f cannot be opened (a warning only), a chunk carries an
\* error, or rm exits non-zero, Delete completes and the file is removed
\* from the state, which may then record as deleted a file that is still on
\* the VM.
C30_DeleteAlwaysRemovesTheState ==
  filePc = "deleted" =>
    /\ ~HasError(fileDiags)
    /\ fileState = NoState
    /\ fileErr # NoErr => fileDiags # <<>>

\* Delete could not open the exec: a warning, no state, the file on the VM
C30_Witness ==
  /\ filePc = "deleted"
  /\ fileState = NoState
  /\ fileDiags # <<>>
  /\ fileErr # NoErr
  /\ sent # None

====
